---- MODULE Spec2Model ----
(***************************************************************************)
(* Model of backend/server.py of Perfect-Gigs: the REST handlers over the  *)
(* external store (profiles, gigs, applications, reviews, messages), the   *)
(* JWT bearer scheme, and the Telegram wizard over the in-process session  *)
(* map.                                                                    *)
(*                                                                         *)
(* Conventions.  A Python Optional is a sequence of length at most one:    *)
(* None is <<>> and a value x is <<x>>.  Time is counted in hours, the     *)
(* unit of JWT_EXPIRATION_HOURS; a handler reads the clock once.  A uuid4  *)
(* is a fresh identifier <<"uuid", n>>.  A rating is held in tenths (4.2   *)
(* is 42).  Each handler counts in resp.calls the calls it made to the     *)
(* external store.                                                         *)
(***************************************************************************)
EXTENDS Integers, Sequences, FiniteSets, TLC

VARIABLES
    now,                \* the clock, in hours
    ticks,              \* how many times the clock has advanced
    profiles,           \* table profiles: id -> row
    gigs,               \* table gigs: id -> row
    applications,       \* table applications: id -> row
    reviews,            \* table reviews: id -> row
    messages,           \* table messages: id -> row
    telegram_sessions,  \* chat_id -> session
    tokens,             \* the access tokens clients hold
    inflight,           \* the requests suspended between two store calls
    resp                \* the last request handled and its response

store == <<profiles, gigs, applications, reviews, messages>>
vars == <<now, ticks, profiles, gigs, applications, reviews, messages,
          telegram_sessions, tokens, inflight, resp>>

None == <<>>
Some(x) == <<x>>

-----------------------------------------------------------------------------
(* Bounds of the model *)

MaxTicks == 2
MaxTokens == 2
MaxMarketRows == 3
MaxReviews == 4
MaxRows == 1
MaxTurns == 7
MaxInflight == 2
MaxChats == 3

Emails == {"a@x.io", "b@x.io"}
Passwords == {"pw1", "pw2"}
Names == {"Ann"}

-----------------------------------------------------------------------------
(* Text.  A text is named by a TLA+ string and computed on as the sequence *)
(* of its characters, Chars[s]; the texts of the model are the phrases of  *)
(* the source and the messages the clients send.                           *)

Chars ==
    ("" :> <<>>)
    @@ ("post gig" :> <<"p", "o", "s", "t", " ", "g", "i", "g">>)
    @@ ("create gig" :> <<"c", "r", "e", "a", "t", "e", " ", "g", "i", "g">>)
    @@ ("new gig" :> <<"n", "e", "w", " ", "g", "i", "g">>)
    @@ ("post a gig" :> <<"p", "o", "s", "t", " ", "a", " ", "g", "i", "g">>)
    @@ ("create a gig" :> <<"c", "r", "e", "a", "t", "e", " ", "a", " ", "g", "i", "g">>)
    @@ ("register freelancer" :> <<"r", "e", "g", "i", "s", "t", "e", "r", " ", "f", "r", "e", "e", "l", "a", "n", "c", "e", "r">>)
    @@ ("become freelancer" :> <<"b", "e", "c", "o", "m", "e", " ", "f", "r", "e", "e", "l", "a", "n", "c", "e", "r">>)
    @@ ("freelancer registration" :> <<"f", "r", "e", "e", "l", "a", "n", "c", "e", "r", " ", "r", "e", "g", "i", "s", "t", "r", "a", "t", "i", "o", "n">>)
    @@ ("register as freelancer" :> <<"r", "e", "g", "i", "s", "t", "e", "r", " ", "a", "s", " ", "f", "r", "e", "e", "l", "a", "n", "c", "e", "r">>)
    @@ ("find gig" :> <<"f", "i", "n", "d", " ", "g", "i", "g">>)
    @@ ("search gig" :> <<"s", "e", "a", "r", "c", "h", " ", "g", "i", "g">>)
    @@ ("find work" :> <<"f", "i", "n", "d", " ", "w", "o", "r", "k">>)
    @@ ("search work" :> <<"s", "e", "a", "r", "c", "h", " ", "w", "o", "r", "k">>)
    @@ ("find job" :> <<"f", "i", "n", "d", " ", "j", "o", "b">>)
    @@ ("browse gig" :> <<"b", "r", "o", "w", "s", "e", " ", "g", "i", "g">>)
    @@ ("cancel" :> <<"c", "a", "n", "c", "e", "l">>)
    @@ ("stop" :> <<"s", "t", "o", "p">>)
    @@ ("quit" :> <<"q", "u", "i", "t">>)
    @@ ("exit" :> <<"e", "x", "i", "t">>)
    @@ ("Web Development" :> <<"W", "e", "b", " ", "D", "e", "v", "e", "l", "o", "p", "m", "e", "n", "t">>)
    @@ ("Mobile Development" :> <<"M", "o", "b", "i", "l", "e", " ", "D", "e", "v", "e", "l", "o", "p", "m", "e", "n", "t">>)
    @@ ("UI/UX Design" :> <<"U", "I", "/", "U", "X", " ", "D", "e", "s", "i", "g", "n">>)
    @@ ("Graphic Design" :> <<"G", "r", "a", "p", "h", "i", "c", " ", "D", "e", "s", "i", "g", "n">>)
    @@ ("Content Writing" :> <<"C", "o", "n", "t", "e", "n", "t", " ", "W", "r", "i", "t", "i", "n", "g">>)
    @@ ("Video Editing" :> <<"V", "i", "d", "e", "o", " ", "E", "d", "i", "t", "i", "n", "g">>)
    @@ ("Social Media" :> <<"S", "o", "c", "i", "a", "l", " ", "M", "e", "d", "i", "a">>)
    @@ ("Data Entry" :> <<"D", "a", "t", "a", " ", "E", "n", "t", "r", "y">>)
    @@ ("Virtual Assistant" :> <<"V", "i", "r", "t", "u", "a", "l", " ", "A", "s", "s", "i", "s", "t", "a", "n", "t">>)
    @@ ("Translation" :> <<"T", "r", "a", "n", "s", "l", "a", "t", "i", "o", "n">>)
    @@ ("Tutoring" :> <<"T", "u", "t", "o", "r", "i", "n", "g">>)
    @@ ("Photography" :> <<"P", "h", "o", "t", "o", "g", "r", "a", "p", "h", "y">>)
    @@ ("Music & Audio" :> <<"M", "u", "s", "i", "c", " ", "&", " ", "A", "u", "d", "i", "o">>)
    @@ ("Marketing" :> <<"M", "a", "r", "k", "e", "t", "i", "n", "g">>)
    @@ ("Delivery" :> <<"D", "e", "l", "i", "v", "e", "r", "y">>)
    @@ ("Other" :> <<"O", "t", "h", "e", "r">>)
    @@ ("[SEARCH_GIGS]" :> <<"[", "S", "E", "A", "R", "C", "H", "_", "G", "I", "G", "S", "]">>)
    @@ ("[POST_GIG]" :> <<"[", "P", "O", "S", "T", "_", "G", "I", "G", "]">>)
    @@ ("[UPDATE_PROFILE]" :> <<"[", "U", "P", "D", "A", "T", "E", "_", "P", "R", "O", "F", "I", "L", "E", "]">>)
    @@ ("[APPLY_GIG]" :> <<"[", "A", "P", "P", "L", "Y", "_", "G", "I", "G", "]">>)
    @@ ("[REGISTER_FREELANCER]" :> <<"[", "R", "E", "G", "I", "S", "T", "E", "R", "_", "F", "R", "E", "E", "L", "A", "N", "C", "E", "R", "]">>)
    @@ (" Cancel" :> <<" ", "C", "a", "n", "c", "e", "l">>)
    @@ ("Cancel" :> <<"C", "a", "n", "c", "e", "l">>)
    @@ ("QUIT" :> <<"Q", "U", "I", "T">>)
    @@ ("exit " :> <<"e", "x", "i", "t", " ">>)
    @@ ("Stop" :> <<"S", "t", "o", "p">>)
    @@ ("please cancel" :> <<"p", "l", "e", "a", "s", "e", " ", "c", "a", "n", "c", "e", "l">>)
    @@ ("7" :> <<"7">>)
    @@ ("5-9" :> <<"5", "-", "9">>)
    @@ ("50-100" :> <<"5", "0", "-", "1", "0", "0">>)
    @@ ("30" :> <<"3", "0">>)
    @@ ("7 - 9" :> <<"7", " ", "-", " ", "9">>)
    @@ ("$5 - 9" :> <<"$", "5", " ", "-", " ", "9">>)
    @@ ("abc" :> <<"a", "b", "c">>)
    @@ ("7 days" :> <<"7", " ", "d", "a", "y", "s">>)
    @@ ("-3" :> <<"-", "3">>)
    @@ ("9-5" :> <<"9", "-", "5">>)
    @@ ("Post A Gig" :> <<"P", "o", "s", "t", " ", "A", " ", "G", "i", "g">>)
    @@ ("hello" :> <<"h", "e", "l", "l", "o">>)
    @@ ("find gigs" :> <<"f", "i", "n", "d", " ", "g", "i", "g", "s">>)
    @@ ("post a gig or register as freelancer" :> <<"p", "o", "s", "t", " ", "a", " ", "g", "i", "g", " ", "o", "r", " ", "r", "e", "g", "i", "s", "t", "e", "r", " ", "a", "s", " ", "f", "r", "e", "e", "l", "a", "n", "c", "e", "r">>)
    @@ ("find tutoring work" :> <<"f", "i", "n", "d", " ", "t", "u", "t", "o", "r", "i", "n", "g", " ", "w", "o", "r", "k">>)
    @@ ("Tutoring, Delivery" :> <<"T", "u", "t", "o", "r", "i", "n", "g", ",", " ", "D", "e", "l", "i", "v", "e", "r", "y">>)
    @@ ("Sure!" :> <<"S", "u", "r", "e", "!">>)
    @@ ("[POST_GIG] title: Logo" :> <<"[", "P", "O", "S", "T", "_", "G", "I", "G", "]", " ", "t", "i", "t", "l", "e", ":", " ", "L", "o", "g", "o">>)
    @@ ("Try [APPLY_GIG] or [SEARCH_GIGS]" :> <<"T", "r", "y", " ", "[", "A", "P", "P", "L", "Y", "_", "G", "I", "G", "]", " ", "o", "r", " ", "[", "S", "E", "A", "R", "C", "H", "_", "G", "I", "G", "S", "]">>)
    @@ ("title" :> <<"t", "i", "t", "l", "e">>)
    @@ ("Logo" :> <<"L", "o", "g", "o">>)

ToLower ==
    ("A" :> "a") @@ ("B" :> "b") @@ ("C" :> "c") @@ ("D" :> "d") @@ ("E" :>
    "e") @@ ("F" :> "f") @@ ("G" :> "g") @@ ("H" :> "h") @@ ("I" :> "i") @@
    ("J" :> "j") @@ ("K" :> "k") @@ ("L" :> "l") @@ ("M" :> "m") @@ ("N" :>
    "n") @@ ("O" :> "o") @@ ("P" :> "p") @@ ("Q" :> "q") @@ ("R" :> "r") @@
    ("S" :> "s") @@ ("T" :> "t") @@ ("U" :> "u") @@ ("V" :> "v") @@ ("W" :>
    "w") @@ ("X" :> "x") @@ ("Y" :> "y") @@ ("Z" :> "z")

Whitespace == {" ", "\n"}
Digits == ("0" :> 0) @@ ("1" :> 1) @@ ("2" :> 2) @@ ("3" :> 3) @@ ("4" :> 4)
          @@ ("5" :> 5) @@ ("6" :> 6) @@ ("7" :> 7) @@ ("8" :> 8) @@ ("9" :> 9)

\* the text with the characters c
Name(c) == CHOOSE s \in DOMAIN Chars : Chars[s] = c

\* str.lower()
Lower(c) ==
    [i \in 1..Len(c) |-> IF c[i] \in DOMAIN ToLower THEN ToLower[c[i]] ELSE c[i]]

\* p in c
IsIn(p, c) ==
    \E i \in 0..(Len(c) - Len(p)) : SubSeq(c, i + 1, i + Len(p)) = p

\* str.strip()
Strip(c) ==
    LET keep == {i \in 1..Len(c) : c[i] \notin Whitespace} IN
    IF keep = {} THEN <<>>
    ELSE SubSeq(c, CHOOSE i \in keep : \A j \in keep : i <= j,
                   CHOOSE i \in keep : \A j \in keep : i >= j)

\* str.replace(ch, "")
Remove(c, ch) == SelectSeq(c, LAMBDA x : x # ch)

\* str.split(sep) for a one-character sep
RECURSIVE Split(_, _)
Split(c, sep) ==
    LET at == {i \in 1..Len(c) : c[i] = sep} IN
    IF at = {} THEN <<c>>
    ELSE LET i == CHOOSE k \in at : \A j \in at : k <= j IN
         <<SubSeq(c, 1, i - 1)>> \o Split(SubSeq(c, i + 1, Len(c)), sep)

\* str.split()[:1]: the first of the words between runs of whitespace, in a
\* list that is empty when there is no word
FirstWord(c) ==
    LET s == Strip(c)
        ws == {i \in 1..Len(s) : s[i] \in Whitespace}
    IN  IF s = <<>> THEN <<>>
        ELSE IF ws = {} THEN <<s>>
        ELSE <<SubSeq(s, 1, (CHOOSE k \in ws : \A j \in ws : k <= j) - 1)>>

\* the value of a run of decimal digits
RECURSIVE Decimal(_)
Decimal(c) ==
    IF c = <<>> THEN 0
    ELSE 10 * Decimal(SubSeq(c, 1, Len(c) - 1)) + Digits[c[Len(c)]]

AllDigits(c) == c # <<>> /\ \A i \in 1..Len(c) : c[i] \in DOMAIN Digits

\* float(c) on the texts of the model (digits only): the number, or None
\* for the ValueError
ParseFloat(c) == IF AllDigits(c) THEN Some(Decimal(c)) ELSE None

\* int(c) on the texts of the model (an optional sign, then digits)
ParseInt(c) ==
    IF AllDigits(c) THEN Some(Decimal(c))
    ELSE IF c # <<>> /\ c[1] \in {"+", "-"} /\ AllDigits(Tail(c))
    THEN Some(IF c[1] = "-" THEN 0 - Decimal(Tail(c)) ELSE Decimal(Tail(c)))
    ELSE None

-----------------------------------------------------------------------------
(* JWT settings and helpers *)

JWT_SECRET == "SUPABASE_JWT_SECRET"
OtherSecret == "attacker-key"
JWT_EXPIRATION_HOURS == 24 * 7

\* jwt.encode(payload, key): the signed token of a payload
jwt_encode(payload, key) ==
    [wellformed |-> TRUE, payload |-> payload, key |-> key]

MutNoExp_jwt_decode(token, key, t) ==
    IF ~token.wellformed THEN [ok |-> FALSE, err |-> "DecodeError"]
    ELSE IF token.key # key THEN [ok |-> FALSE, err |-> "InvalidSignatureError"]
    ELSE [ok |-> TRUE, payload |-> token.payload]

\* jwt.decode(token, key, algorithms) at time t: shape, signature, then exp
\* (PyJWT 2: expired when exp <= now)
jwt_decode(token, key, t) ==
    IF ~token.wellformed THEN [ok |-> FALSE, err |-> "DecodeError"]
    ELSE IF token.key # key THEN [ok |-> FALSE, err |-> "InvalidSignatureError"]
    ELSE IF token.payload.exp <= t
        THEN [ok |-> FALSE, err |-> "ExpiredSignatureError"]
    ELSE [ok |-> TRUE, payload |-> token.payload]

create_access_token(user_id, email, t) ==
    jwt_encode([sub |-> user_id, email |-> email,
                exp |-> t + JWT_EXPIRATION_HOURS, iat |-> t], JWT_SECRET)

\* passlib bcrypt: the hash holds the password irreversibly; verify recomputes
hash_password(password) == <<"bcrypt", password>>
Mut_verify_password(plain_password, hashed_password) ==
    hashed_password[1] = "bcrypt"

verify_password(plain_password, hashed_password) ==
    hashed_password = <<"bcrypt", plain_password>>

UserObj(id, email) == [id |-> id, email |-> email]

Mut_get_current_user(credentials, t) ==
    IF credentials = None \/ credentials[1].payload.sub = None
    THEN [ok |-> FALSE, status |-> 401, detail |-> "Not authenticated"]
    ELSE [ok |-> TRUE, user |-> UserObj(credentials[1].payload.sub,
                                        credentials[1].payload.email)]

\* get_current_user: the user, or the 401 it raises
get_current_user(credentials, t) ==
    IF credentials = None
    THEN [ok |-> FALSE, status |-> 401, detail |-> "Not authenticated"]
    ELSE LET d == jwt_decode(credentials[1], JWT_SECRET, t) IN
         IF ~d.ok
         THEN [ok |-> FALSE, status |-> 401,
               detail |-> IF d.err = "ExpiredSignatureError"
                          THEN "Token expired" ELSE "Invalid token"]
         ELSE IF d.payload.sub = None
         THEN [ok |-> FALSE, status |-> 401, detail |-> "Invalid token"]
         ELSE [ok |-> TRUE, user |-> UserObj(d.payload.sub, d.payload.email)]

Mut_get_optional_user(credentials, t) ==
    IF credentials = None \/ credentials[1].payload.sub = None THEN None
    ELSE Some(UserObj(credentials[1].payload.sub, credentials[1].payload.email))

\* get_optional_user: the user, or None
get_optional_user(credentials, t) ==
    IF credentials = None THEN None
    ELSE LET d == jwt_decode(credentials[1], JWT_SECRET, t) IN
         IF ~d.ok THEN None
         ELSE IF d.payload.sub = None THEN None
         ELSE Some(UserObj(d.payload.sub, d.payload.email))

-----------------------------------------------------------------------------
(* The requests a client can send *)

\* a token with the payload of t signed with another key
Forged(t) == jwt_encode(t.payload, OtherSecret)
\* a string that is no JWT
Garbage == [wellformed |-> FALSE, payload |-> [sub |-> None, email |-> "",
            exp |-> 0, iat |-> 0], key |-> OtherSecret]

Credentials ==
    {None, Some(Garbage)} \cup {Some(t) : t \in tokens}
        \cup {Some(Forged(t)) : t \in tokens}

\* the client keeps the token of a response while it has room
Keep(t) == IF Cardinality(tokens) < MaxTokens THEN tokens \cup {t} ELSE tokens

-----------------------------------------------------------------------------
(* The external store *)

uuid4(table) == <<"uuid", Cardinality(DOMAIN table) + 1>>

\* a table in which every row becomes the row written
Mut_Insert(table, id, row) ==
    [k \in DOMAIN table \cup {id} |-> row]

\* table.insert(row) with primary key id
Insert(table, id, row) ==
    [k \in DOMAIN table \cup {id} |-> IF k = id THEN row ELSE table[k]]

Mut_ByEmail(email) == {}

\* select ... eq("email", email): the ids of the matching rows
ByEmail(email) == {id \in DOMAIN profiles : profiles[id].email = email}

\* a row of profiles; a column a handler does not set is null
ProfileRow(id, email, name, password_hash, bio, firebase_uid) ==
    [id |-> id, email |-> email, name |-> name,
     password_hash |-> password_hash, firebase_uid |-> firebase_uid,
     bio |-> bio, location |-> "", rating |-> 0, total_reviews |-> 0,
     is_freelancer |-> FALSE, freelancer_categories |-> <<>>,
     freelancer_availability |-> ""]

\* {k: v for k, v in row.items() if k != "password_hash"}
WithoutHash(row) == [f \in DOMAIN row \ {"password_hash"} |-> row[f]]

Init ==
    /\ now = 0
    /\ ticks = 0
    /\ profiles = <<>>
    /\ gigs = <<>>
    /\ applications = <<>>
    /\ reviews = <<>>
    /\ messages = <<>>
    /\ telegram_sessions = <<>>
    /\ tokens = {}
    /\ inflight = {}
    /\ resp = [route |-> "none", status |-> 0, calls |-> 0]

\* time passes
Tick(d) ==
    /\ now' = now + d
    /\ ticks' = ticks + 1
    /\ UNCHANGED <<store, telegram_sessions, tokens, inflight, resp>>

-----------------------------------------------------------------------------
(* Auth routes *)

\* POST /auth/signup
signup(data) ==
    LET existing == ByEmail(data.email)
        user_id == uuid4(profiles)
        profile_data == ProfileRow(user_id, data.email, data.name,
                                   Some(hash_password(data.password)), "", None)
        access_token == create_access_token(user_id, data.email, now)
    IN  IF existing # {}
        THEN /\ resp' = [route |-> "signup", req |-> data, status |-> 400,
                         detail |-> "Email already registered", calls |-> 1]
             /\ UNCHANGED <<inflight, now, ticks, store, telegram_sessions, tokens>>
        ELSE /\ profiles' = Insert(profiles, user_id, profile_data)
             /\ tokens' = Keep(access_token)
             /\ resp' = [route |-> "signup", req |-> data, status |-> 200,
                         user |-> WithoutHash(profile_data),
                         access_token |-> access_token, calls |-> 2]
             /\ UNCHANGED <<inflight, now, ticks, gigs, applications, reviews, messages,
                            telegram_sessions>>

\* POST /auth/login
login(data) ==
    LET result == ByEmail(data.email)
        Fail(detail) ==
            /\ resp' = [route |-> "login", req |-> data, status |-> 401,
                        detail |-> detail, calls |-> 1]
            /\ UNCHANGED <<inflight, now, ticks, store, telegram_sessions, tokens>>
    IN  IF result = {} THEN Fail("Invalid email or password")
        ELSE \E id \in result :
             LET user == profiles[id]
                 access_token == create_access_token(user.id, user.email, now)
             IN  IF user.password_hash = None
                 THEN Fail("Please use Google Sign-in for this account")
                 ELSE IF ~verify_password(data.password, user.password_hash[1])
                 THEN Fail("Invalid email or password")
                 ELSE /\ tokens' = Keep(access_token)
                      /\ resp' = [route |-> "login", req |-> data,
                                  status |-> 200, user |-> WithoutHash(user),
                                  access_token |-> access_token, calls |-> 1]
                      /\ UNCHANGED <<inflight, now, ticks, store, telegram_sessions>>

\* POST /auth/google
google_auth(data) ==
    LET existing == ByEmail(data.email) IN
    IF existing # {}
    THEN \E user_id \in existing :
         LET updated == [profiles[user_id] EXCEPT
                            !.firebase_uid = Some(data.firebase_uid)]
             access_token == create_access_token(user_id, data.email, now)
         IN  /\ profiles' = [profiles EXCEPT ![user_id] = updated]
             /\ tokens' = Keep(access_token)
             /\ resp' = [route |-> "google_auth", req |-> data, status |-> 200,
                         user |-> WithoutHash(updated),
                         access_token |-> access_token, calls |-> 3]
             /\ UNCHANGED <<inflight, now, ticks, gigs, applications, reviews, messages,
                            telegram_sessions>>
    ELSE LET user_id == uuid4(profiles)
             profile_data == ProfileRow(user_id, data.email, data.name, None,
                                        "", Some(data.firebase_uid))
             access_token == create_access_token(user_id, data.email, now)
         IN  /\ profiles' = Insert(profiles, user_id, profile_data)
             /\ tokens' = Keep(access_token)
             /\ resp' = [route |-> "google_auth", req |-> data, status |-> 200,
                         user |-> profile_data,
                         access_token |-> access_token, calls |-> 2]
             /\ UNCHANGED <<inflight, now, ticks, gigs, applications, reviews, messages,
                            telegram_sessions>>

\* the 401 of a route that depends on get_current_user
Unauthorized(route, credentials, auth) ==
    /\ resp' = [route |-> route, req |-> [credentials |-> credentials],
                status |-> auth.status, detail |-> auth.detail, calls |-> 0]
    /\ UNCHANGED <<inflight, now, ticks, store, telegram_sessions, tokens>>

\* GET /auth/me: the response body for an authenticated user
get_me_body(user) ==
    IF user.id \in DOMAIN profiles
    THEN [status |-> 200, user |-> WithoutHash(profiles[user.id])]
    ELSE [status |-> 404, detail |-> "Profile not found"]

get_me(credentials) ==
    LET auth == get_current_user(credentials, now) IN
    IF ~auth.ok THEN Unauthorized("get_me", credentials, auth)
    ELSE /\ resp' = [route |-> "get_me", req |-> [credentials |-> credentials],
                     status |-> get_me_body(auth.user).status,
                     body |-> get_me_body(auth.user), calls |-> 1]
         /\ UNCHANGED <<inflight, now, ticks, store, telegram_sessions, tokens>>

-----------------------------------------------------------------------------
(* Profile, gig, application, message and review routes *)

\* the response of a handler that ran as user
Reply(route, req, user, status, calls, more) ==
    [route |-> route, req |-> req, user |-> user.id, status |-> status,
     calls |-> calls] @@ more

\* PUT /profile; data holds the fields that are not None
update_profile(data, credentials) ==
    LET auth == get_current_user(credentials, now)
        req == [credentials |-> credentials, data |-> data]
    IN
    IF ~auth.ok THEN Unauthorized("update_profile", credentials, auth)
    ELSE LET id == auth.user.id
             row == IF id \in DOMAIN profiles
                    THEN Some([f \in DOMAIN profiles[id] |->
                                 IF f \in DOMAIN data THEN data[f]
                                 ELSE profiles[id][f]])
                    ELSE None
         IN  /\ profiles' = IF row = None THEN profiles
                            ELSE [profiles EXCEPT ![id] = row[1]]
             /\ resp' = Reply("update_profile", req, auth.user, 200, 1,
                              [profile |-> row])
             /\ UNCHANGED <<inflight, now, ticks, gigs, applications, reviews, messages,
                            telegram_sessions, tokens>>

\* POST /freelancer/register
register_freelancer(data, credentials) ==
    LET auth == get_current_user(credentials, now)
        req == [credentials |-> credentials, data |-> data]
    IN
    IF ~auth.ok THEN Unauthorized("register_freelancer", credentials, auth)
    ELSE LET id == auth.user.id
             row == IF id \in DOMAIN profiles
                    THEN Some([profiles[id] EXCEPT
                                 !.is_freelancer = TRUE,
                                 !.freelancer_categories = data.categories,
                                 !.freelancer_availability = data.availability,
                                 !.location = data.location,
                                 !.bio = data.bio])
                    ELSE None
         IN  /\ profiles' = IF row = None THEN profiles
                            ELSE [profiles EXCEPT ![id] = row[1]]
             /\ resp' = Reply("register_freelancer", req, auth.user, 200, 1,
                              [profile |-> row])
             /\ UNCHANGED <<inflight, now, ticks, gigs, applications, reviews, messages,
                            telegram_sessions, tokens>>

\* POST /gigs
create_gig(data, credentials) ==
    LET auth == get_current_user(credentials, now)
        req == [credentials |-> credentials, data |-> data]
    IN
    IF ~auth.ok THEN Unauthorized("create_gig", credentials, auth)
    ELSE LET id == uuid4(gigs)
             gig_data == [id |-> id, status |-> "open",
                          created_by |-> auth.user.id,
                          applications_count |-> 0] @@ data
         IN  /\ gigs' = Insert(gigs, id, gig_data)
             /\ resp' = Reply("create_gig", req, auth.user, 200, 1,
                              [gig |-> gig_data])
             /\ UNCHANGED <<inflight, now, ticks, profiles, applications, reviews,
                            messages, telegram_sessions, tokens>>

\* select("id").eq("gig_id", gig_id).eq("applicant_id", user_id)
Mut_ApplicationsOf(gig_id, applicant_id) ==
    {id \in DOMAIN applications :
        /\ applications[id].gig_id = gig_id
        /\ applications[id].applicant_id = applicant_id
        /\ applications[id].status = "accepted"}

ApplicationsOf(gig_id, applicant_id) ==
    {id \in DOMAIN applications :
        /\ applications[id].gig_id = gig_id
        /\ applications[id].applicant_id = applicant_id}

\* rpc increment_applications_count(gig_id_param)
increment_applications_count(gig_id) ==
    [id \in DOMAIN gigs |->
        IF id = gig_id
        THEN [gigs[id] EXCEPT !.applications_count = @ + 1]
        ELSE gigs[id]]

\* an apply_to_gig that takes its row back when the counter rpc fails
Mut_apply_insert(req, user, rpc_ok) ==
    LET id == uuid4(applications)
        application_data == [id |-> id, gig_id |-> req.gig_id,
                             applicant_id |-> user.id,
                             cover_letter |-> req.data.cover_letter,
                             status |-> "pending"]
    IN  IF req.gig_id \notin DOMAIN gigs
        THEN /\ resp' = Reply("apply_to_gig", req, user, 400, 2,
                              [detail |-> "foreign key violation"])
             /\ UNCHANGED <<now, ticks, store, telegram_sessions, tokens>>
        ELSE /\ applications' = IF rpc_ok
                                THEN Insert(applications, id, application_data)
                                ELSE applications
             /\ IF rpc_ok
                THEN /\ gigs' = increment_applications_count(req.gig_id)
                     /\ resp' = Reply("apply_to_gig", req, user, 200, 3,
                                      [application |-> application_data])
                ELSE /\ gigs' = gigs
                     /\ resp' = Reply("apply_to_gig", req, user, 400, 3,
                                      [detail |-> "rpc error"])
             /\ UNCHANGED <<now, ticks, profiles, reviews, messages,
                            telegram_sessions, tokens>>

\* apply_to_gig after the pre-check found no application: the insert, the
\* counter rpc and the response.  The insert fails on the foreign key
\* applications_gig_id_fkey when the gig does not exist.
apply_insert(req, user, rpc_ok) ==
    LET id == uuid4(applications)
        application_data == [id |-> id, gig_id |-> req.gig_id,
                             applicant_id |-> user.id,
                             cover_letter |-> req.data.cover_letter,
                             status |-> "pending"]
    IN  IF req.gig_id \notin DOMAIN gigs
        THEN /\ resp' = Reply("apply_to_gig", req, user, 400, 2,
                              [detail |-> "foreign key violation"])
             /\ UNCHANGED <<now, ticks, store, telegram_sessions, tokens>>
        ELSE /\ applications' = Insert(applications, id, application_data)
             /\ IF rpc_ok
                THEN /\ gigs' = increment_applications_count(req.gig_id)
                     /\ resp' = Reply("apply_to_gig", req, user, 200, 3,
                                      [application |-> application_data])
                ELSE /\ gigs' = gigs
                     /\ resp' = Reply("apply_to_gig", req, user, 400, 3,
                                      [detail |-> "rpc error"])
             /\ UNCHANGED <<now, ticks, profiles, reviews, messages,
                            telegram_sessions, tokens>>

\* POST /gigs/{gig_id}/apply, handled without another request in between;
\* rpc_ok: the counter rpc succeeds
apply_to_gig(gig_id, data, credentials, rpc_ok) ==
    LET auth == get_current_user(credentials, now)
        req == [credentials |-> credentials, gig_id |-> gig_id, data |-> data]
    IN
    IF ~auth.ok THEN Unauthorized("apply_to_gig", credentials, auth)
    ELSE IF ApplicationsOf(gig_id, auth.user.id) # {}
    THEN /\ resp' = Reply("apply_to_gig", req, auth.user, 400, 1,
                          [detail |-> "Already applied"])
         /\ UNCHANGED <<inflight, now, ticks, store, telegram_sessions,
                        tokens>>
    ELSE /\ apply_insert(req, auth.user, rpc_ok)
         /\ UNCHANGED inflight

\* POST /gigs/{gig_id}/apply up to the answer of its pre-check: the request
\* is answered when an application exists, and suspended before its insert
\* otherwise
apply_check(slot, gig_id, data, credentials) ==
    LET auth == get_current_user(credentials, now)
        req == [credentials |-> credentials, gig_id |-> gig_id, data |-> data]
    IN
    IF ~auth.ok THEN Unauthorized("apply_to_gig", credentials, auth)
    ELSE IF ApplicationsOf(gig_id, auth.user.id) # {}
    THEN /\ resp' = Reply("apply_to_gig", req, auth.user, 400, 1,
                          [detail |-> "Already applied"])
         /\ UNCHANGED <<inflight, now, ticks, store, telegram_sessions,
                        tokens>>
    ELSE /\ inflight' = inflight \cup
                 {[slot |-> slot, route |-> "apply_to_gig", req |-> req,
                   user |-> auth.user]}
         /\ UNCHANGED <<now, ticks, store, telegram_sessions, tokens, resp>>

\* a suspended apply_to_gig request goes on from its insert to its response
apply_resume(r, rpc_ok) ==
    /\ r \in inflight
    /\ r.route = "apply_to_gig"
    /\ apply_insert(r.req, r.user, rpc_ok)
    /\ inflight' = inflight \ {r}

Mut_IsCreator(gig, user) == TRUE

\* gig.data["created_by"] != user.id, negated
IsCreator(gig, user) == gig.created_by = user.id

\* GET /profile/{user_id}: the whole row (select "*"); .single() raises when
\* no row matches
get_profile(user_id) ==
    /\ resp' = IF user_id \in DOMAIN profiles
               THEN [route |-> "get_profile", req |-> [user_id |-> user_id],
                     status |-> 200, profile |-> profiles[user_id], calls |-> 1]
               ELSE [route |-> "get_profile", req |-> [user_id |-> user_id],
                     status |-> 404, detail |-> "Profile not found", calls |-> 1]
    /\ UNCHANGED <<inflight, now, ticks, store, telegram_sessions, tokens>>

\* profiles!gigs_created_by_fkey(name, avatar_url, rating, bio)
CreatorOf(gig) ==
    IF gig.created_by \in DOMAIN profiles
    THEN Some([name |-> profiles[gig.created_by].name,
               rating |-> profiles[gig.created_by].rating,
               bio |-> profiles[gig.created_by].bio])
    ELSE None

\* GET /gigs/{gig_id}; .single() raises when no row matches
get_gig(gig_id) ==
    /\ resp' = IF gig_id \in DOMAIN gigs
               THEN [route |-> "get_gig", req |-> [gig_id |-> gig_id],
                     status |-> 200, gig |-> gigs[gig_id],
                     creator |-> CreatorOf(gigs[gig_id]), calls |-> 1]
               ELSE [route |-> "get_gig", req |-> [gig_id |-> gig_id],
                     status |-> 404, detail |-> "Gig not found", calls |-> 1]
    /\ UNCHANGED <<inflight, now, ticks, store, telegram_sessions, tokens>>

\* GET /gigs/{gig_id}/applications; .single() raises when no row matches
get_gig_applications(gig_id, credentials) ==
    LET auth == get_current_user(credentials, now)
        req == [credentials |-> credentials, gig_id |-> gig_id]
    IN
    IF ~auth.ok THEN Unauthorized("get_gig_applications", credentials, auth)
    ELSE /\ resp' =
            IF gig_id \notin DOMAIN gigs
            THEN Reply("get_gig_applications", req, auth.user, 400, 1,
                       [detail |-> "no rows"])
            ELSE IF ~IsCreator(gigs[gig_id], auth.user)
            THEN Reply("get_gig_applications", req, auth.user, 403, 1,
                       [detail |-> "Not authorized"])
            ELSE Reply("get_gig_applications", req, auth.user, 200, 2,
                       [applications |->
                           {applications[a] : a \in
                               {a \in DOMAIN applications :
                                   applications[a].gig_id = gig_id}}])
         /\ UNCHANGED <<inflight, now, ticks, store, telegram_sessions, tokens>>

\* an accept that takes the acceptance back when it is repeated
Mut_accept_application(application_id, credentials) ==
    LET auth == get_current_user(credentials, now)
        req == [credentials |-> credentials, application_id |-> application_id]
    IN
    IF ~auth.ok THEN Unauthorized("accept_application", credentials, auth)
    ELSE IF application_id \notin DOMAIN applications
    THEN /\ resp' = Reply("accept_application", req, auth.user, 400, 1,
                          [detail |-> "no rows"])
         /\ UNCHANGED <<inflight, now, ticks, store, telegram_sessions, tokens>>
    ELSE IF ~IsCreator(gigs[applications[application_id].gig_id], auth.user)
    THEN /\ resp' = Reply("accept_application", req, auth.user, 403, 1,
                          [detail |-> "Not authorized"])
         /\ UNCHANGED <<inflight, now, ticks, store, telegram_sessions, tokens>>
    ELSE /\ applications' =
                [applications EXCEPT ![application_id].status =
                    IF @ = "accepted" THEN "pending" ELSE "accepted"]
         /\ resp' = Reply("accept_application", req, auth.user, 200, 2,
                          [success |-> TRUE])
         /\ UNCHANGED <<inflight, now, ticks, profiles, gigs, reviews, messages,
                        telegram_sessions, tokens>>

\* PUT /applications/{application_id}/accept
accept_application(application_id, credentials) ==
    LET auth == get_current_user(credentials, now)
        req == [credentials |-> credentials, application_id |-> application_id]
    IN
    IF ~auth.ok THEN Unauthorized("accept_application", credentials, auth)
    ELSE IF application_id \notin DOMAIN applications
    THEN /\ resp' = Reply("accept_application", req, auth.user, 400, 1,
                          [detail |-> "no rows"])
         /\ UNCHANGED <<inflight, now, ticks, store, telegram_sessions, tokens>>
    ELSE IF ~IsCreator(gigs[applications[application_id].gig_id], auth.user)
    THEN /\ resp' = Reply("accept_application", req, auth.user, 403, 1,
                          [detail |-> "Not authorized"])
         /\ UNCHANGED <<inflight, now, ticks, store, telegram_sessions, tokens>>
    ELSE /\ applications' =
                [applications EXCEPT ![application_id].status = "accepted"]
         /\ resp' = Reply("accept_application", req, auth.user, 200, 2,
                          [success |-> TRUE])
         /\ UNCHANGED <<inflight, now, ticks, profiles, gigs, reviews, messages,
                        telegram_sessions, tokens>>

\* GET /my-gigs
get_my_gigs(credentials) ==
    LET auth == get_current_user(credentials, now)
        req == [credentials |-> credentials]
    IN
    IF ~auth.ok THEN Unauthorized("get_my_gigs", credentials, auth)
    ELSE /\ resp' = Reply("get_my_gigs", req, auth.user, 200, 1,
                          [gigs |-> {gigs[g] : g \in
                              {g \in DOMAIN gigs :
                                  gigs[g].created_by = auth.user.id}}])
         /\ UNCHANGED <<inflight, now, ticks, store, telegram_sessions, tokens>>

\* GET /my-applications
get_my_applications(credentials) ==
    LET auth == get_current_user(credentials, now)
        req == [credentials |-> credentials]
    IN
    IF ~auth.ok THEN Unauthorized("get_my_applications", credentials, auth)
    ELSE /\ resp' = Reply("get_my_applications", req, auth.user, 200, 1,
                          [applications |-> {applications[a] : a \in
                              {a \in DOMAIN applications :
                                  applications[a].applicant_id = auth.user.id}}])
         /\ UNCHANGED <<inflight, now, ticks, store, telegram_sessions, tokens>>

\* x in the list xs
InList(x, xs) == \E i \in 1..Len(xs) : xs[i] = x

\* GET /match/gigs
get_matched_gigs(credentials) ==
    LET auth == get_current_user(credentials, now)
        req == [credentials |-> credentials]
    IN
    IF ~auth.ok THEN Unauthorized("get_matched_gigs", credentials, auth)
    ELSE /\ resp' =
            IF auth.user.id \notin DOMAIN profiles
            THEN Reply("get_matched_gigs", req, auth.user, 400, 1,
                       [detail |-> "no rows"])
            ELSE LET profile == profiles[auth.user.id]
                     categories == profile.freelancer_categories
                 IN  IF ~profile.is_freelancer
                     THEN Reply("get_matched_gigs", req, auth.user, 200, 1,
                                [gigs |-> {}])
                     ELSE Reply("get_matched_gigs", req, auth.user, 200, 2,
                                [gigs |-> {gigs[g] : g \in
                                    {g \in DOMAIN gigs :
                                        /\ gigs[g].status = "open"
                                        /\ categories # <<>> =>
                                             InList(gigs[g].category, categories)}}])
         /\ UNCHANGED <<inflight, now, ticks, store, telegram_sessions, tokens>>

\* GET /match/freelancers/{gig_id}
get_matched_freelancers(gig_id, credentials) ==
    LET auth == get_current_user(credentials, now)
        req == [credentials |-> credentials, gig_id |-> gig_id]
    IN
    IF ~auth.ok THEN Unauthorized("get_matched_freelancers", credentials, auth)
    ELSE /\ resp' =
            IF gig_id \notin DOMAIN gigs
            THEN Reply("get_matched_freelancers", req, auth.user, 400, 1,
                       [detail |-> "no rows"])
            ELSE IF ~IsCreator(gigs[gig_id], auth.user)
            THEN Reply("get_matched_freelancers", req, auth.user, 403, 1,
                       [detail |-> "Not authorized"])
            ELSE Reply("get_matched_freelancers", req, auth.user, 200, 2,
                       [freelancers |-> {profiles[f] : f \in
                           {f \in DOMAIN profiles :
                               /\ profiles[f].is_freelancer
                               /\ InList(gigs[gig_id].category,
                                         profiles[f].freelancer_categories)}}])
         /\ UNCHANGED <<inflight, now, ticks, store, telegram_sessions, tokens>>

\* POST /messages
send_message(data, credentials) ==
    LET auth == get_current_user(credentials, now)
        req == [credentials |-> credentials, data |-> data]
    IN
    IF ~auth.ok THEN Unauthorized("send_message", credentials, auth)
    ELSE LET id == uuid4(messages)
             message_data == [id |-> id, sender_id |-> auth.user.id,
                              receiver_id |-> data.receiver_id,
                              content |-> data.content,
                              gig_id |-> data.gig_id, is_read |-> FALSE]
         IN  /\ messages' = Insert(messages, id, message_data)
             /\ resp' = Reply("send_message", req, auth.user, 200, 1,
                              [message |-> message_data])
             /\ UNCHANGED <<inflight, now, ticks, profiles, gigs, applications, reviews,
                            telegram_sessions, tokens>>

\* GET /messages/{other_user_id}: the conversation, then marks as read what
\* the other user sent
get_conversation(other_user_id, credentials) ==
    LET auth == get_current_user(credentials, now)
        req == [credentials |-> credentials, other_user_id |-> other_user_id]
    IN
    IF ~auth.ok THEN Unauthorized("get_conversation", credentials, auth)
    ELSE LET me == auth.user.id
             between == {m \in DOMAIN messages :
                 \/ messages[m].sender_id = me
                      /\ messages[m].receiver_id = other_user_id
                 \/ messages[m].sender_id = other_user_id
                      /\ messages[m].receiver_id = me}
         IN  /\ messages' = [m \in DOMAIN messages |->
                    IF messages[m].receiver_id = me
                         /\ messages[m].sender_id = other_user_id
                    THEN [messages[m] EXCEPT !.is_read = TRUE]
                    ELSE messages[m]]
             /\ resp' = Reply("get_conversation", req, auth.user, 200, 2,
                              [messages |-> {messages[m] : m \in between}])
             /\ UNCHANGED <<inflight, now, ticks, profiles, gigs, applications, reviews,
                            telegram_sessions, tokens>>

\* GET /conversations: rpc get_user_conversations(user_id_param)
get_conversations(credentials) ==
    LET auth == get_current_user(credentials, now)
        req == [credentials |-> credentials]
    IN
    IF ~auth.ok THEN Unauthorized("get_conversations", credentials, auth)
    ELSE LET me == auth.user.id IN
         /\ resp' = Reply("get_conversations", req, auth.user, 200, 1,
                [conversations |->
                    {messages[m].receiver_id : m \in
                        {m \in DOMAIN messages : messages[m].sender_id = me}}
                    \cup {messages[m].sender_id : m \in
                        {m \in DOMAIN messages : messages[m].receiver_id = me}}])
         /\ UNCHANGED <<inflight, now, ticks, store, telegram_sessions, tokens>>

\* sum(r["rating"] for r in rows)
RECURSIVE SumRatings(_, _)
SumRatings(table, ids) ==
    IF ids = {} THEN 0
    ELSE LET id == CHOOSE x \in ids : TRUE IN
         table[id].rating + SumRatings(table, ids \ {id})

Mut_RoundTenths(total, n) == (10 * total) \div n

\* round(total / n, 1) in tenths: to the nearest tenth, a tie to the even
\* one (exact for the quarters, the only ties of fewer than 20 rows)
RoundTenths(total, n) ==
    LET q == (10 * total) \div n
        r == (10 * total) % n
    IN  IF 2 * r < n THEN q
        ELSE IF 2 * r > n THEN q + 1
        ELSE IF q % 2 = 0 THEN q ELSE q + 1

\* POST /reviews
create_review(data, credentials) ==
    LET auth == get_current_user(credentials, now)
        req == [credentials |-> credentials, data |-> data]
    IN
    IF ~auth.ok THEN Unauthorized("create_review", credentials, auth)
    ELSE LET id == uuid4(reviews)
             review_data == [id |-> id, reviewer_id |-> auth.user.id,
                             reviewed_user_id |-> data.reviewed_user_id,
                             gig_id |-> data.gig_id, rating |-> data.rating,
                             comment |-> data.comment]
             inserted == Insert(reviews, id, review_data)
             rows == {r \in DOMAIN inserted :
                         inserted[r].reviewed_user_id = data.reviewed_user_id}
             rating == RoundTenths(SumRatings(inserted, rows), Cardinality(rows))
         IN  /\ reviews' = inserted
             /\ profiles' = [p \in DOMAIN profiles |->
                    IF p = data.reviewed_user_id
                    THEN [profiles[p] EXCEPT !.rating = rating,
                                             !.total_reviews = Cardinality(rows)]
                    ELSE profiles[p]]
             /\ resp' = Reply("create_review", req, auth.user, 200, 3,
                              [review |-> review_data])
             /\ UNCHANGED <<inflight, now, ticks, gigs, applications, messages,
                            telegram_sessions, tokens>>

\* POST /reviews up to the answer of its insert: the request is suspended
\* before it selects the ratings of the reviewed user
review_insert(slot, data, credentials) ==
    LET auth == get_current_user(credentials, now)
        req == [credentials |-> credentials, data |-> data]
    IN
    IF ~auth.ok THEN Unauthorized("create_review", credentials, auth)
    ELSE LET id == uuid4(reviews)
             review_data == [id |-> id, reviewer_id |-> auth.user.id,
                             reviewed_user_id |-> data.reviewed_user_id,
                             gig_id |-> data.gig_id, rating |-> data.rating,
                             comment |-> data.comment]
         IN  /\ reviews' = Insert(reviews, id, review_data)
             /\ inflight' = inflight \cup
                    {[slot |-> slot, route |-> "create_review", req |-> req,
                      user |-> auth.user, review |-> review_data,
                      pc |-> "select", total |-> 0, count |-> 0]}
             /\ UNCHANGED <<now, ticks, profiles, gigs, applications, messages,
                            telegram_sessions, tokens, resp>>

\* a suspended create_review request selects the ratings of the reviewed user
\* and is suspended before its update: sum(...) and len(reviews.data)
review_select(r) ==
    /\ r \in inflight
    /\ r.route = "create_review"
    /\ r.pc = "select"
    /\ LET rows == {x \in DOMAIN reviews :
                       reviews[x].reviewed_user_id = r.req.data.reviewed_user_id}
       IN  inflight' = (inflight \ {r}) \cup
               {[r EXCEPT !.pc = "update",
                          !.total = SumRatings(reviews, rows),
                          !.count = Cardinality(rows)]}
    /\ UNCHANGED <<now, ticks, store, telegram_sessions, tokens, resp>>

\* an update that reads the ratings again when it writes
Mut_review_update(r) ==
    /\ r \in inflight
    /\ r.route = "create_review"
    /\ r.pc = "update"
    /\ inflight' = inflight \ {r}
    /\ LET rows == {x \in DOMAIN reviews :
                       reviews[x].reviewed_user_id = r.req.data.reviewed_user_id}
       IN  profiles' = [p \in DOMAIN profiles |->
               IF p = r.req.data.reviewed_user_id
               THEN [profiles[p] EXCEPT
                        !.rating = RoundTenths(SumRatings(reviews, rows),
                                               Cardinality(rows)),
                        !.total_reviews = Cardinality(rows)]
               ELSE profiles[p]]
    /\ resp' = Reply("create_review", r.req, r.user, 200, 3,
                     [review |-> r.review])
    /\ UNCHANGED <<now, ticks, gigs, applications, reviews, messages,
                   telegram_sessions, tokens>>

\* a suspended create_review request writes the mean and the number of the
\* ratings it selected to the profile and answers
review_update(r) ==
    /\ r \in inflight
    /\ r.route = "create_review"
    /\ r.pc = "update"
    /\ inflight' = inflight \ {r}
    /\ profiles' = [p \in DOMAIN profiles |->
           IF p = r.req.data.reviewed_user_id
           THEN [profiles[p] EXCEPT !.rating = RoundTenths(r.total, r.count),
                                    !.total_reviews = r.count]
           ELSE profiles[p]]
    /\ resp' = Reply("create_review", r.req, r.user, 200, 3,
                     [review |-> r.review])
    /\ UNCHANGED <<now, ticks, gigs, applications, reviews, messages,
                   telegram_sessions, tokens>>

-----------------------------------------------------------------------------
(* AI assistant, web channel *)

ActionMarkers ==
    <<"SEARCH_GIGS", "POST_GIG", "UPDATE_PROFILE", "APPLY_GIG",
      "REGISTER_FREELANCER">>

\* text.find(p, from): the first index at or after from where p occurs in c,
\* counted from 0; -1 when there is none
Find(p, c, from) ==
    LET at == {i \in from..(Len(c) - Len(p)) : SubSeq(c, i + 1, i + Len(p)) = p}
    IN  IF at = {} THEN 0 - 1 ELSE CHOOSE i \in at : \A j \in at : i <= j

\* key.strip().lower().replace(" ", "_") of the part of a line before its
\* first ":"
ActionKey(line) ==
    LET key == Lower(Strip(SubSeq(line, 1, Find(<<":">>, line, 0)))) IN
    [i \in 1..Len(key) |-> IF key[i] = " " THEN "_" ELSE key[i]]

\* value.strip() of the part of a line after its first ":"
ActionValue(line) == Strip(SubSeq(line, Find(<<":">>, line, 0) + 2, Len(line)))

\* the key: value lines of parse_action_data, a later line of a key replacing
\* an earlier one
ActionData(lines) ==
    LET set == {i \in 1..Len(lines) :
                   /\ Find(<<":">>, lines[i], 0) >= 0
                   /\ ActionValue(lines[i]) # <<>>}
    IN  [key \in {Name(ActionKey(lines[i])) : i \in set} |->
            Name(ActionValue(lines[CHOOSE i \in set :
                /\ Name(ActionKey(lines[i])) = key
                /\ \A j \in set : Name(ActionKey(lines[j])) = key => j <= i]))]

\* the text of parse_action_data between the marker and the next "["
ActionText(text, start) ==
    Strip(SubSeq(text, start + 1,
                 IF Find(<<"[">>, text, start) >= 0
                 THEN Find(<<"[">>, text, start) ELSE Len(text)))

\* parse_action_data(text, action_type)
parse_action_data(text, action_type) ==
    ActionData(Split(ActionText(text,
                                Find(Chars["[" \o action_type \o "]"], text, 0)
                                    + Len(Chars["[" \o action_type \o "]"])),
                     "\n"))

\* the action of ai_chat: the first action type, in the order of the if/elif
\* chain, whose marker the completion text holds, with its data; None when
\* the text holds no marker
ActionIn(c) ==
    LET hit == {i \in 1..Len(ActionMarkers) :
                   IsIn(Chars["[" \o ActionMarkers[i] \o "]"], c)}
    IN  IF hit = {} THEN None
        ELSE Some([type |-> ActionMarkers[CHOOSE i \in hit : \A j \in hit : i <= j],
                   data |-> parse_action_data(
                                c, ActionMarkers[CHOOSE i \in hit : \A j \in hit : i <= j])])

ParsedActionOf == [s \in DOMAIN Chars |-> ActionIn(Chars[s])]
ParsedAction(ai_response) == ParsedActionOf[ai_response]

\* an assistant that carries out the action it finds in the completion
Mut_ai_chat(credentials, data, completion) ==
    /\ resp' = [route |-> "ai_chat",
                req |-> [credentials |-> credentials, message |-> data.message],
                status |-> IF completion.kind = "response"
                              /\ completion.status_code = 200
                           THEN 200 ELSE 500,
                detail |-> "", response |-> completion.content,
                action |-> ParsedAction(completion.content),
                context_info |-> "", calls |-> 1,
                completion |-> Some(completion)]
    /\ gigs' = IF ParsedAction(completion.content) # None
               THEN Insert(gigs, uuid4(gigs),
                           ParsedAction(completion.content)[1].data)
               ELSE gigs
    /\ UNCHANGED <<inflight, now, ticks, profiles, applications, reviews,
                   messages, telegram_sessions, tokens>>

\* POST /ai/chat; completion is what the completion API answers
ai_chat(credentials, data, completion) ==
    LET user == get_optional_user(credentials, now)
        context_info == IF user # None THEN "User is logged in"
                        ELSE "User is NOT logged in"
        req == [credentials |-> credentials, message |-> data.message]
    IN  /\ resp' =
            IF completion.kind = "exception"
            THEN [route |-> "ai_chat", req |-> req, status |-> 500,
                  detail |-> "exception", context_info |-> context_info,
                  calls |-> 0, completion |-> Some(completion)]
            ELSE IF completion.status_code # 200
            THEN [route |-> "ai_chat", req |-> req, status |-> 500,
                  detail |-> "AI service error",
                  context_info |-> context_info, calls |-> 0,
                  completion |-> Some(completion)]
            ELSE [route |-> "ai_chat", req |-> req, status |-> 200,
                  response |-> completion.content,
                  action |-> ParsedAction(completion.content),
                  context_info |-> context_info, calls |-> 0,
                  completion |-> Some(completion)]
        /\ UNCHANGED <<inflight, now, ticks, store, telegram_sessions, tokens>>

-----------------------------------------------------------------------------
(* Telegram channel: the session store, the two wizards, search and the    *)
(* conversation fallback                                                   *)

GIG_CATEGORIES ==
    <<"Web Development", "Mobile Development", "UI/UX Design", "Graphic Design",
      "Content Writing", "Video Editing", "Social Media", "Data Entry",
      "Virtual Assistant", "Translation", "Tutoring", "Photography",
      "Music & Audio", "Marketing", "Delivery", "Other">>

\* the keys of the wizard steps, in order; a step's question is named by its key
TELEGRAM_GIG_STEPS ==
    <<"title", "description", "category", "location", "budget", "duration">>
TELEGRAM_FREELANCER_STEPS == <<"categories", "availability", "location", "bio">>

PostGigPhrases ==
    {"post gig", "create gig", "new gig", "post a gig", "create a gig"}
FreelancerPhrases ==
    {"register freelancer", "become freelancer", "freelancer registration",
     "register as freelancer"}
SearchPhrases ==
    {"find gig", "search gig", "find work", "search work", "find job",
     "browse gig"}
CancelWords == {"cancel", "stop", "quit", "exit"}

\* session["history"][-30:] and session["history"][-10:]
HistoryLimit == 30
AiWindow == 10

\* a slice that keeps the whole sequence
Mut_LastN(seq, n) == seq

\* seq[-n:]
LastN(seq, n) ==
    IF Len(seq) <= n THEN seq ELSE SubSeq(seq, Len(seq) - n + 1, Len(seq))

\* d.get(key, default)
Get(d, key, default) == IF key \in DOMAIN d THEN d[key] ELSE default

\* d[key] = value
Put(d, key, value) ==
    [k \in DOMAIN d \cup {key} |-> IF k = key THEN value ELSE d[k]]

\* x or default
OrElse(x, default) == IF x = None \/ x = Some("") THEN default ELSE x[1]

\* data.message.strip()
StripOf == [s \in DOMAIN Chars |-> Name(Strip(Chars[s]))]

\* any(word in lower_msg for word in phrases)
AnyIn(phrases, lower_msg) == \E word \in phrases : IsIn(Chars[word], lower_msg)

\* a channel that looks for the freelancer phrases first
Mut_Intent(message) ==
    LET lower_msg == Lower(Chars[message]) IN
    IF AnyIn(FreelancerPhrases, lower_msg) THEN "register_freelancer"
    ELSE IF AnyIn(PostGigPhrases, lower_msg) THEN "post_gig"
    ELSE IF AnyIn(SearchPhrases, lower_msg) THEN "search"
    ELSE "chat"

\* the branch of telegram_chat an idle session takes on a message
Intent(message) ==
    LET lower_msg == Lower(Chars[message]) IN
    IF AnyIn(PostGigPhrases, lower_msg) THEN "post_gig"
    ELSE IF AnyIn(FreelancerPhrases, lower_msg) THEN "register_freelancer"
    ELSE IF AnyIn(SearchPhrases, lower_msg) THEN "search"
    ELSE "chat"

IntentOf == [s \in DOMAIN Chars |-> Intent(s)]

\* the first category of GIG_CATEGORIES whose lower case the message holds
CategoryIn(message) ==
    LET lower_msg == Lower(Chars[message])
        hit == {i \in 1..Len(GIG_CATEGORIES) :
                   IsIn(Lower(Chars[GIG_CATEGORIES[i]]), lower_msg)}
    IN  IF hit = {} THEN None
        ELSE Some(GIG_CATEGORIES[CHOOSE i \in hit : \A j \in hit : i <= j])

CategoryOf == [s \in DOMAIN Chars |-> CategoryIn(s)]

Mut_IsCancel(message) == message \in CancelWords

\* message.lower() in ["cancel", "stop", "quit", "exit"]
IsCancel(message) ==
    Lower(Chars[message]) \in {Chars[w] : w \in CancelWords}

Mut_parse_budget(budget_str) ==
    LET budget_parts ==
            Split(Remove(Remove(Chars[budget_str], "$"), " "), "-")
        budget_min == ParseFloat(budget_parts[1])
    IN  IF budget_min = None THEN None
        ELSE Some([budget_min |-> budget_min[1],
                   budget_max |-> budget_min[1] * 2])

\* the budget of create_gig_from_telegram: "$" and blanks removed, split at
\* "-", float of the first part and of the last; None for the ValueError
parse_budget(budget_str) ==
    LET budget_parts ==
            Split(Remove(Remove(Chars[budget_str], "$"), " "), "-")
        budget_min == ParseFloat(budget_parts[1])
        last == ParseFloat(budget_parts[Len(budget_parts)])
    IN  IF budget_min = None THEN None
        ELSE IF Len(budget_parts) > 1
        THEN IF last = None THEN None
             ELSE Some([budget_min |-> budget_min[1], budget_max |-> last[1]])
        ELSE Some([budget_min |-> budget_min[1],
                   budget_max |-> budget_min[1] * 2])

BudgetOf == [s \in DOMAIN Chars |-> parse_budget(s)]

\* int(duration.split()[0]); None for the IndexError or the ValueError
parse_duration(duration) ==
    LET words == FirstWord(Chars[duration]) IN
    IF words = <<>> THEN None ELSE ParseInt(words[1])

DurationOf == [s \in DOMAIN Chars |-> parse_duration(s)]

\* [c.strip() for c in categories.split(",")]
split_categories(categories) ==
    LET parts == Split(Chars[categories], ",") IN
    [i \in 1..Len(parts) |-> Name(Strip(parts[i]))]

CategoriesOf == [s \in DOMAIN Chars |-> split_categories(s)]

\* strftime("%Y-%m-%d") of a time: the day it falls on
Day(t) == t \div 24

\* telegram_sessions[chat_id] = {...}: the session of a chat seen for the
\* first time
NewSession(user_name) ==
    [history |-> <<>>, wizard_mode |-> None, wizard_step |-> 0,
     wizard_data |-> <<>>, user_name |-> OrElse(user_name, "User")]

\* session["history"].append({"role": role, "content": content})
Say(session, role, content) ==
    [session EXCEPT !.history = Append(@, [role |-> role, content |-> content])]

\* the session telegram_chat works on: found or created, named, the message
\* appended to its history and the history cut to its last entries
Heard(data, message) ==
    [(IF data.chat_id \in DOMAIN telegram_sessions
      THEN telegram_sessions[data.chat_id]
      ELSE NewSession(data.user_name))
     EXCEPT !.user_name = OrElse(data.user_name, @),
            !.history = LastN(Append(@, [role |-> "user", content |-> message]),
                              HistoryLimit)]

\* what a step of the channel leaves behind: the session, the two tables it
\* writes, the reply, the number of store calls made, whether one failed, and
\* the number of times a commit function was awaited
Outcome(session, P, G, success, response, calls, failed, sent) ==
    [session |-> session, profiles |-> P, gigs |-> G, success |-> success,
     response |-> response, calls |-> calls, failed |-> failed, sent |-> sent,
     commits |-> 0]

\* the reply goes to the history and to the caller
Replied(session, P, G, response, calls, failed, sent) ==
    Outcome(Say(session, "assistant", response), P, G, TRUE, response, calls,
            failed, sent)

\* the profile row of a chat's user
TelegramProfile(chat_id, user_name) ==
    ProfileRow(<<"telegram", chat_id>>,
               "telegram_" \o chat_id \o "@telegram.user", user_name, None,
               "Telegram User", None)

\* gig_data of create_gig_from_telegram
TelegramGig(data, budget, duration_days, user_id, gig_id) ==
    [id |-> gig_id,
     title |-> Get(data, "title", "Untitled"),
     description |-> Get(data, "description", ""),
     category |-> Get(data, "category", "Other"),
     location |-> Get(data, "location", "Remote"),
     budget_min |-> budget.budget_min,
     budget_max |-> budget.budget_max,
     duration_start |-> Day(now),
     duration_end |-> Day(now) + duration_days,
     people_needed |-> 1, is_urgent |-> FALSE, status |-> "open",
     created_by |-> user_id, applications_count |-> 0]

\* store calls that insert the gig a second time under a further id
Mut_InsertTelegramGig(gig_data, user_id, profile_data, fail_at) ==
    IF fail_at # 0
    THEN [result |-> None, profiles |-> profiles, gigs |-> gigs,
          calls |-> fail_at, failed |-> TRUE]
    ELSE [result |-> Some(gig_data),
          profiles |-> Insert(profiles, user_id, profile_data),
          gigs |-> Insert(Insert(gigs, gig_data.id, gig_data),
                          <<"uuid", gig_data.id[2] + 1>>,
                          [gig_data EXCEPT !.id = <<"uuid", gig_data.id[2] + 1>>]),
          calls |-> 4, failed |-> FALSE]

\* the store calls of create_gig_from_telegram: the profile of the chat's user
\* is looked up and inserted when missing, then the gig is inserted; the call
\* numbered fail_at raises (0: none does)
InsertTelegramGig(gig_data, user_id, profile_data, fail_at) ==
    IF fail_at = 1
    THEN [result |-> None, profiles |-> profiles, gigs |-> gigs,
          calls |-> 1, failed |-> TRUE]
    ELSE IF user_id \in DOMAIN profiles
    THEN IF fail_at = 2
         THEN [result |-> None, profiles |-> profiles, gigs |-> gigs,
               calls |-> 2, failed |-> TRUE]
         ELSE [result |-> Some(gig_data), profiles |-> profiles,
               gigs |-> Insert(gigs, gig_data.id, gig_data),
               calls |-> 2, failed |-> FALSE]
    ELSE IF fail_at = 2
    THEN [result |-> None, profiles |-> profiles, gigs |-> gigs,
          calls |-> 2, failed |-> TRUE]
    ELSE IF fail_at = 3
    THEN [result |-> None,
          profiles |-> Insert(profiles, user_id, profile_data),
          gigs |-> gigs, calls |-> 3, failed |-> TRUE]
    ELSE [result |-> Some(gig_data),
          profiles |-> Insert(profiles, user_id, profile_data),
          gigs |-> Insert(gigs, gig_data.id, gig_data),
          calls |-> 3, failed |-> FALSE]

\* the parsed answers of create_gig_from_telegram, then its store calls
ParsedTelegramGig(budget, duration_days, data, chat_id, user_name, fail_at) ==
    IF budget = None \/ duration_days = None
    THEN [result |-> None, profiles |-> profiles, gigs |-> gigs,
          calls |-> 0, failed |-> FALSE]
    ELSE InsertTelegramGig(
             TelegramGig(data, budget[1], duration_days[1],
                         <<"telegram", chat_id>>, uuid4(gigs)),
             <<"telegram", chat_id>>, TelegramProfile(chat_id, user_name),
             fail_at)

\* a commit that tells a failure only after it made every store call
Mut_create_gig_from_telegram(data, chat_id, user_name, fail_at) ==
    [ParsedTelegramGig(BudgetOf[Get(data, "budget", "50-100")],
                       DurationOf[Get(data, "duration", "30")],
                       data, chat_id, user_name, 0)
     EXCEPT !.result = IF fail_at # 0 THEN None ELSE @,
            !.failed = fail_at # 0]

\* create_gig_from_telegram; the store call numbered fail_at raises (0: none).
\* result is the gig inserted, None after any exception
create_gig_from_telegram(data, chat_id, user_name, fail_at) ==
    ParsedTelegramGig(BudgetOf[Get(data, "budget", "50-100")],
                      DurationOf[Get(data, "duration", "30")],
                      data, chat_id, user_name, fail_at)

\* profile_data of register_freelancer_from_telegram on the row it updates, or
\* on the row it inserts
FreelancerRow(base, categories, data) ==
    [base EXCEPT !.is_freelancer = TRUE,
                 !.freelancer_categories = categories,
                 !.freelancer_availability = Get(data, "availability", "Flexible"),
                 !.location = Get(data, "location", ""),
                 !.bio = Get(data, "bio", "")]

\* the store calls of register_freelancer_from_telegram and its result
UpsertFreelancer(categories, data, user_id, base, fail_at) ==
    IF fail_at \in {1, 2}
    THEN [result |-> None, profiles |-> profiles, gigs |-> gigs,
          calls |-> fail_at, failed |-> TRUE]
    ELSE [result |-> Some([categories |-> categories,
                           availability |-> Get(data, "availability", "Flexible"),
                           location |-> Get(data, "location", "")]),
          profiles |-> Insert(profiles, user_id,
                              FreelancerRow(base, categories, data)),
          gigs |-> gigs, calls |-> 2, failed |-> FALSE]

\* register_freelancer_from_telegram: update the chat's profile, or insert it
register_freelancer_from_telegram(data, chat_id, user_name, fail_at) ==
    UpsertFreelancer(CategoriesOf[Get(data, "categories", "Other")], data,
                     <<"telegram", chat_id>>,
                     IF <<"telegram", chat_id>> \in DOMAIN profiles
                     THEN profiles[<<"telegram", chat_id>>]
                     ELSE TelegramProfile(chat_id, user_name),
                     fail_at)

\* the ids of a set of gigs, latest first (order("created_at", desc=True))
RECURSIVE LatestFirst(_)
LatestFirst(ids) ==
    IF ids = {} THEN <<>>
    ELSE LET id == CHOOSE i \in ids : \A j \in ids : i[2] >= j[2] IN
         <<id>> \o LatestFirst(ids \ {id})

\* the select of search_gigs_for_telegram: the open gigs, of the category when
\* one is given (ilike "%category%")
OpenGigs(category) ==
    {id \in DOMAIN gigs :
        /\ gigs[id].status = "open"
        /\ category # None =>
               IsIn(Lower(Chars[category[1]]), Lower(Chars[gigs[id].category]))}

\* limit(5) of the rows in their order
Limit5(ids) == SubSeq(ids, 1, IF Len(ids) < 5 THEN Len(ids) ELSE 5)

\* the columns search_gigs_for_telegram selects
Selected(ids) ==
    [i \in 1..Len(ids) |->
        [id |-> ids[i], title |-> gigs[ids[i]].title,
         budget_min |-> gigs[ids[i]].budget_min,
         budget_max |-> gigs[ids[i]].budget_max,
         location |-> gigs[ids[i]].location,
         category |-> gigs[ids[i]].category]]

\* search_gigs_for_telegram: the five latest open gigs; no gigs when the store
\* call fails
search_gigs_for_telegram(category, fail_at) ==
    IF fail_at = 1 THEN <<>>
    ELSE Selected(Limit5(LatestFirst(OpenGigs(category))))

\* a conversation fallback that passes on whatever the completion API holds
Mut_get_telegram_ai_response(session, completion) ==
    [sent |-> <<[role |-> "system",
                 content |-> <<"You are Ishan", session.user_name>>]>>
              \o LastN(session.history, AiWindow),
     text |-> <<completion.content>>]

\* get_telegram_ai_response: the messages posted to the completion API and
\* the text returned to the chat
get_telegram_ai_response(session, completion) ==
    [sent |-> <<[role |-> "system",
                 content |-> <<"You are Ishan", session.user_name>>]>>
              \o LastN(session.history, AiWindow),
     text |-> IF completion.kind = "exception"
              THEN <<"Hi! I can help you post gigs, register as a freelancer, or find work. What would you like to do?">>
              ELSE IF completion.status_code # 200
              THEN <<"I'm having trouble right now. Try: 'post a gig', 'register as freelancer', or 'find gigs'">>
              ELSE <<completion.content>>]

\* a reply that does not tell a commit without a result from a wizard error
Mut_CommitReply(steps, result) ==
    IF result = None
    THEN <<"Something went wrong. Try again!">>
    ELSE IF steps = TELEGRAM_GIG_STEPS
    THEN <<"Gig Posted Successfully!", result[1].title, result[1].category,
           result[1].budget_min, result[1].budget_max, result[1].location,
           result[1].id>>
    ELSE <<"You're now a freelancer!", result[1].categories,
           result[1].availability, result[1].location>>

\* the reply of handle_telegram_wizard to the result of a commit
CommitReply(steps, result) ==
    IF result = None
    THEN IF steps = TELEGRAM_GIG_STEPS
         THEN <<"Failed to create gig. Please try again!">>
         ELSE <<"Failed to register. Please try again!">>
    ELSE IF steps = TELEGRAM_GIG_STEPS
    THEN <<"Gig Posted Successfully!", result[1].title, result[1].category,
           result[1].budget_min, result[1].budget_max, result[1].location,
           result[1].id>>
    ELSE <<"You're now a freelancer!", result[1].categories,
           result[1].availability, result[1].location>>

\* a commit that leaves the session in the wizard, one step on
Mut_Committed(session, steps, commit) ==
    Replied([session EXCEPT !.wizard_step = @ + 1, !.wizard_data = <<>>],
            commit.profiles, commit.gigs, CommitReply(steps, commit.result),
            commit.calls, commit.failed, <<>>)

\* the end of a wizard: the session leaves the wizard whatever the commit did
Committed(session, steps, commit) ==
    [Replied([session EXCEPT !.wizard_mode = None, !.wizard_step = 0,
                             !.wizard_data = <<>>],
             commit.profiles, commit.gigs, CommitReply(steps, commit.result),
             commit.calls, commit.failed, <<>>)
     EXCEPT !.commits = 1]

\* one wizard of handle_telegram_wizard: store the answer of the current step,
\* then ask the next question or commit
WizardAnswer(session, message, chat_id, fail_at, steps, ack) ==
    IF session.wizard_step + 1 > Len(steps)
    THEN \* steps[step_idx] raises IndexError
         Outcome([session EXCEPT !.wizard_mode = None], profiles, gigs,
                 FALSE, <<"Error processing. Try again!">>, 0, FALSE, <<>>)
    ELSE IF session.wizard_step + 1 < Len(steps)
    THEN Replied([session EXCEPT
                     !.wizard_data = Put(@, steps[session.wizard_step + 1],
                                         message),
                     !.wizard_step = @ + 1],
                 profiles, gigs, <<ack, steps[session.wizard_step + 2]>>, 0,
                 FALSE, <<>>)
    ELSE Committed(
             session, steps,
             IF steps = TELEGRAM_GIG_STEPS
             THEN create_gig_from_telegram(
                      Put(session.wizard_data, steps[session.wizard_step + 1],
                          message),
                      chat_id, session.user_name, fail_at)
             ELSE register_freelancer_from_telegram(
                      Put(session.wizard_data, steps[session.wizard_step + 1],
                          message),
                      chat_id, session.user_name, fail_at))

\* handle_telegram_wizard(session, message, chat_id)
handle_telegram_wizard(session, message, chat_id, fail_at) ==
    IF IsCancel(message)
    THEN Replied([session EXCEPT !.wizard_mode = None, !.wizard_step = 0,
                                 !.wizard_data = <<>>],
                 profiles, gigs, <<"Cancelled! What else can I help with?">>,
                 0, FALSE, <<>>)
    ELSE IF session.wizard_mode = Some("post_gig")
    THEN WizardAnswer(session, message, chat_id, fail_at, TELEGRAM_GIG_STEPS,
                      "Got it!")
    ELSE IF session.wizard_mode = Some("register_freelancer")
    THEN WizardAnswer(session, message, chat_id, fail_at,
                      TELEGRAM_FREELANCER_STEPS, "Great!")
    ELSE Outcome([session EXCEPT !.wizard_mode = None], profiles, gigs, TRUE,
                 <<"Something went wrong. Try again!">>, 0, FALSE, <<>>)

\* an idle session starts a wizard
StartWizard(session, mode, opening, steps) ==
    Replied([session EXCEPT !.wizard_mode = Some(mode), !.wizard_step = 0,
                            !.wizard_data = <<>>],
            profiles, gigs, <<opening, steps[1]>>, 0, FALSE, <<>>)

\* the reply of telegram_chat to a search
Listing(found_gigs) ==
    IF found_gigs # <<>>
    THEN <<"Found gigs", Len(found_gigs),
           [i \in 1..Len(found_gigs) |->
               [title |-> found_gigs[i].title,
                budget_min |-> found_gigs[i].budget_min,
                budget_max |-> found_gigs[i].budget_max,
                location |-> found_gigs[i].location]]>>
    ELSE <<"No gigs found. Try different keywords or check back later!">>

\* the default of telegram_chat: the completion API answers
Conversed(session, ai) == Replied(session, profiles, gigs, ai.text, 0, FALSE, ai.sent)

\* a channel that looks for the trigger phrases before the wizard mode
Mut_TelegramOutcome(session, message, intent, chat_id, completion, fail_at) ==
    IF intent = "post_gig"
    THEN StartWizard(session, "post_gig", "Let's create your gig!",
                     TELEGRAM_GIG_STEPS)
    ELSE IF intent = "register_freelancer"
    THEN StartWizard(session, "register_freelancer",
                     "Let's set you up as a freelancer!",
                     TELEGRAM_FREELANCER_STEPS)
    ELSE IF session.wizard_mode # None
    THEN handle_telegram_wizard(session, message, chat_id, fail_at)
    ELSE IF intent = "search"
    THEN Replied(session, profiles, gigs,
                 Listing(search_gigs_for_telegram(CategoryOf[message], fail_at)),
                 1, fail_at = 1, <<>>)
    ELSE Conversed(session, get_telegram_ai_response(session, completion))

\* what telegram_chat does with the stripped message in the session it works
\* on, as an Outcome
TelegramOutcome(session, message, intent, chat_id, completion, fail_at) ==
    IF session.wizard_mode # None
    THEN handle_telegram_wizard(session, message, chat_id, fail_at)
    ELSE IF intent = "post_gig"
    THEN StartWizard(session, "post_gig", "Let's create your gig!",
                     TELEGRAM_GIG_STEPS)
    ELSE IF intent = "register_freelancer"
    THEN StartWizard(session, "register_freelancer",
                     "Let's set you up as a freelancer!",
                     TELEGRAM_FREELANCER_STEPS)
    ELSE IF intent = "search"
    THEN Replied(session, profiles, gigs,
                 Listing(search_gigs_for_telegram(CategoryOf[message], fail_at)),
                 1, fail_at = 1, <<>>)
    ELSE Conversed(session, get_telegram_ai_response(session, completion))

\* POST /telegram/chat; completion is what the completion API answers, and the
\* store call numbered fail_at of this request raises (0: none does)
telegram_chat(data, completion, fail_at) ==
    \E message \in {StripOf[data.message]} :
    \E session \in {Heard(data, message)} :
    \E out \in {TelegramOutcome(session, message, IntentOf[message],
                                data.chat_id, completion, fail_at)} :
        /\ telegram_sessions' =
               Insert(telegram_sessions, data.chat_id, out.session)
        /\ profiles' = out.profiles
        /\ gigs' = out.gigs
        /\ resp' = [route |-> "telegram_chat", req |-> data, status |-> 200,
                    success |-> out.success, response |-> out.response,
                    calls |-> out.calls, failed |-> out.failed,
                    sent |-> out.sent, commits |-> out.commits,
                    completion |-> IF out.sent = <<>> THEN None
                                   ELSE Some(completion)]
        /\ UNCHANGED <<inflight, now, ticks, applications, reviews, messages, tokens>>

\* a suspension of telegram_chat that the source has not: every message leaves
\* the event loop to the others before it is dispatched
Mut_Suspends(session, intent) == TRUE

\* telegram_chat gives the event loop to other requests at one place only: the
\* post to the completion API of the default path (get_telegram_ai_response,
\* await client.post); the store client is the blocking one, so the commit
\* functions the wizard awaits run to their end without a suspension
Suspends(session, intent) == session.wizard_mode = None /\ intent = "chat"

\* telegram_chat of a message that needs no completion: one step
telegram_now(data, completion) ==
    /\ ~Suspends(Heard(data, StripOf[data.message]),
                 IntentOf[StripOf[data.message]])
    /\ telegram_chat(data, completion, 0)

\* telegram_chat up to the post to the completion API: the message is in the
\* history and the messages to send are built from the session as it is now
telegram_ask(slot, data) ==
    \E message \in {StripOf[data.message]} :
    \E session \in {Heard(data, message)} :
        /\ Suspends(session, IntentOf[message])
        /\ inflight' = inflight \cup
               {[slot |-> slot, route |-> "telegram_chat", req |-> data,
                 message |-> message, heard |-> session]}
        /\ telegram_sessions' =
               Insert(telegram_sessions, data.chat_id, session)
        /\ UNCHANGED <<now, ticks, store, tokens, resp>>

\* what a telegram_chat request goes on with when it is resumed, in the
\* session as it is by then
Resumed(r, session, completion) ==
    IF r.heard.wizard_mode = None /\ IntentOf[r.message] = "chat"
    THEN Conversed(session, get_telegram_ai_response(r.heard, completion))
    ELSE TelegramOutcome(session, r.message, IntentOf[r.message],
                         r.req.chat_id, completion, 0)

\* a suspended telegram_chat request goes on from the answer of the
\* completion API to its response
telegram_answer(r, completion) ==
    /\ r \in inflight
    /\ r.route = "telegram_chat"
    /\ inflight' = inflight \ {r}
    /\ \E out \in {Resumed(r, telegram_sessions[r.req.chat_id], completion)} :
           /\ telegram_sessions' =
                  Insert(telegram_sessions, r.req.chat_id, out.session)
           /\ profiles' = out.profiles
           /\ gigs' = out.gigs
           /\ resp' = [route |-> "telegram_chat", req |-> r.req,
                       status |-> 200, success |-> out.success,
                       response |-> out.response, calls |-> out.calls,
                       failed |-> out.failed, sent |-> out.sent,
                       commits |-> out.commits,
                       completion |-> IF out.sent = <<>> THEN None
                                      ELSE Some(completion)]
    /\ UNCHANGED <<now, ticks, applications, reviews, messages, tokens>>

-----------------------------------------------------------------------------
(* The auth specification: signup, login, Google sign-in, /auth/me and the *)
(* web chat, while time passes.                                            *)

TickSteps == {1, JWT_EXPIRATION_HOURS - 1}

SignupInputs == [email : Emails, password : {"pw1"}, name : Names]
LoginInputs == [email : Emails \cup {"nobody@x.io"}, password : Passwords]
GoogleInputs == [email : Emails, name : Names, firebase_uid : {"fb1"}]
Completions ==
    {[kind |-> "response", status_code |-> 200, content |-> "Sure!"],
     [kind |-> "response", status_code |-> 503, content |-> ""],
     [kind |-> "exception", status_code |-> 0, content |-> ""]}

DoTick == ticks < MaxTicks /\ \E d \in TickSteps : Tick(d)
DoSignup == \E data \in SignupInputs : signup(data)
DoLogin == \E data \in LoginInputs : login(data)
DoGoogleAuth == \E data \in GoogleInputs : google_auth(data)
DoGetMe == \E c \in Credentials : get_me(c)
DoAiChat ==
    \E c \in Credentials,
       completion \in {x \in Completions : x.status_code = 200} :
        ai_chat(c, [message |-> "hello"], completion)

NextAuth ==
    \/ DoTick
    \/ DoSignup
    \/ DoLogin
    \/ DoGoogleAuth
    \/ DoGetMe
    \/ DoAiChat

SpecAuth == Init /\ [][NextAuth]_vars

-----------------------------------------------------------------------------
(* The marketplace specification: gigs, applications and their acceptance  *)

\* an id no row has
NoId == <<"uuid", 0>>
GigIds == DOMAIN gigs \cup {NoId}
ApplicationIds == DOMAIN applications \cup {NoId}
UserIds == DOMAIN profiles \cup {NoId}

GigInputs ==
    {[title |-> "Logo", description |-> "A logo", category |-> "Graphic Design",
      location |-> "Remote", budget_min |-> 50, budget_max |-> 100,
      duration_start |-> 0, duration_end |-> 7, people_needed |-> 1,
      is_urgent |-> FALSE]}
FreelancerInputs ==
    {[categories |-> <<"Graphic Design">>, availability |-> "Flexible",
      location |-> "Remote", bio |-> "Designer"]}
ProfileInputs == {[bio |-> "Hi", location |-> "Pune"]}
ApplicationInputs == {[cover_letter |-> None]}
MessageInputs == [receiver_id : UserIds, content : {"hi"}, gig_id : {None}]
Ratings == {1, 2}
ReviewInputs ==
    [reviewed_user_id : UserIds, gig_id : {NoId}, rating : Ratings,
     comment : {None}]

MarketRows == Cardinality(DOMAIN gigs) + Cardinality(DOMAIN applications)

DoCreateGig ==
    /\ MarketRows < MaxMarketRows
    /\ \E data \in GigInputs, c \in Credentials : create_gig(data, c)
DoApply ==
    /\ MarketRows < MaxMarketRows
    /\ \E g \in GigIds, data \in ApplicationInputs, c \in Credentials,
          rpc_ok \in BOOLEAN : apply_to_gig(g, data, c, rpc_ok)
DoAccept ==
    \E a \in ApplicationIds, c \in Credentials : accept_application(a, c)
DoGetGigApplications ==
    \E g \in GigIds, c \in Credentials : get_gig_applications(g, c)
DoGetMatchedFreelancers ==
    \E g \in GigIds, c \in Credentials : get_matched_freelancers(g, c)
DoRegisterFreelancer ==
    \E data \in FreelancerInputs, c \in Credentials :
        register_freelancer(data, c)

NextMarket ==
    \/ DoSignup
    \/ DoCreateGig
    \/ DoApply
    \/ DoAccept
    \/ DoGetGigApplications
    \/ DoGetMatchedFreelancers

SpecMarket == Init /\ [][NextMarket]_vars

-----------------------------------------------------------------------------
(* The reviews specification *)

DoCreateReview ==
    /\ Cardinality(DOMAIN reviews) < MaxReviews
    /\ \E data \in ReviewInputs, c \in Credentials : create_review(data, c)

OneSignup ==
    \E data \in [email : {"a@x.io"}, password : {"pw1"}, name : Names] :
        signup(data)

NextReviews ==
    \/ OneSignup
    \/ DoCreateReview

SpecReviews == Init /\ [][NextReviews]_vars

-----------------------------------------------------------------------------
(* The guard specification: every route that depends on get_current_user,  *)
(* with tokens that expire                                                 *)

TotalRows ==
    Cardinality(DOMAIN gigs) + Cardinality(DOMAIN applications)
        + Cardinality(DOMAIN messages) + Cardinality(DOMAIN reviews)

GuardTick == ticks < MaxTicks /\ Tick(JWT_EXPIRATION_HOURS)
GuardGetMe == \E c \in Credentials : get_me(c)
GuardUpdateProfile ==
    \E data \in ProfileInputs, c \in Credentials : update_profile(data, c)
GuardCreateGig ==
    /\ TotalRows < MaxRows
    /\ \E data \in GigInputs, c \in Credentials : create_gig(data, c)
GuardApply ==
    /\ TotalRows < MaxRows
    /\ \E g \in GigIds, data \in ApplicationInputs, c \in Credentials :
          apply_to_gig(g, data, c, TRUE)
GuardGetMyGigs == \E c \in Credentials : get_my_gigs(c)
GuardGetMyApplications == \E c \in Credentials : get_my_applications(c)
GuardGetMatchedGigs == \E c \in Credentials : get_matched_gigs(c)
GuardSendMessage ==
    /\ TotalRows < MaxRows
    /\ \E data \in MessageInputs, c \in Credentials : send_message(data, c)
GuardGetConversation ==
    \E u \in UserIds, c \in Credentials : get_conversation(u, c)
GuardGetConversations == \E c \in Credentials : get_conversations(c)
GuardCreateReview ==
    /\ TotalRows < MaxRows
    /\ \E data \in ReviewInputs, c \in Credentials : create_review(data, c)

NextGuard ==
    \/ GuardTick
    \/ OneSignup
    \/ GuardGetMe
    \/ GuardUpdateProfile
    \/ DoRegisterFreelancer
    \/ GuardCreateGig
    \/ GuardApply
    \/ DoGetGigApplications
    \/ DoAccept
    \/ GuardGetMyGigs
    \/ GuardGetMyApplications
    \/ GuardGetMatchedGigs
    \/ DoGetMatchedFreelancers
    \/ GuardSendMessage
    \/ GuardGetConversation
    \/ GuardGetConversations
    \/ GuardCreateReview

SpecGuard == Init /\ [][NextGuard]_vars

-----------------------------------------------------------------------------
(* The wizard specification: one chat sends messages to the Telegram       *)
(* channel, one at a time.                                                 *)

ChatIds == {"c1"}
TelegramTexts == {"post a gig", "register as freelancer", "7 - 9", "Cancel"}
TelegramInputs ==
    [chat_id : ChatIds, message : TelegramTexts, user_name : {Some("Ann")}]
WizardCompletions ==
    {[kind |-> "response", status_code |-> 200, content |-> "Sure!"]}
FailAts == {0, 2}

\* the number of messages a chat has sent
Turns(chat_id) ==
    IF chat_id \in DOMAIN telegram_sessions
    THEN Cardinality({i \in DOMAIN telegram_sessions[chat_id].history :
                         telegram_sessions[chat_id].history[i].role = "user"})
    ELSE 0

DoTelegramChat ==
    \E data \in TelegramInputs, completion \in WizardCompletions,
       fail_at \in FailAts :
        /\ Turns(data.chat_id) < MaxTurns
        /\ telegram_chat(data, completion, fail_at)

NextWizard == DoTelegramChat

SpecWizard == Init /\ [][NextWizard]_vars

-----------------------------------------------------------------------------
(* The history specification: one chat that keeps talking, with no bound   *)
(* on the number of its messages; the cut of the history keeps the state   *)
(* space finite.                                                           *)

HistoryTexts == {"post a gig", "Cancel"}
HistoryInputs ==
    [chat_id : ChatIds, message : HistoryTexts, user_name : {Some("Ann")}]

HistoryChat ==
    \E data \in HistoryInputs, completion \in WizardCompletions :
        telegram_chat(data, completion, 0)

NextHistory == HistoryChat

SpecHistory == Init /\ [][NextHistory]_vars

-----------------------------------------------------------------------------
(* The chat specification: two chats of the Telegram channel and the web   *)
(* assistant, with a completion API that answers, refuses or fails.        *)

TwoChats == {"c1", "c2"}
ChatTexts ==
    {"hello", "post a gig", "register as freelancer",
     "post a gig or register as freelancer"}
ChatInputs ==
    [chat_id : TwoChats, message : ChatTexts, user_name : {Some("Ann")}]
ChatCompletions ==
    Completions \cup
        {[kind |-> "response", status_code |-> 200,
          content |-> "[POST_GIG] title: Logo"]}

\* the number of messages the two chats have sent
AllTurns == Turns("c1") + Turns("c2")

ChatTelegram ==
    /\ AllTurns < MaxChats
    /\ \E data \in ChatInputs, completion \in ChatCompletions :
           telegram_chat(data, completion, 0)

ChatAi ==
    \E c \in Credentials, completion \in ChatCompletions :
        ai_chat(c, [message |-> "hello"], completion)

NextChat ==
    \/ OneSignup
    \/ ChatTelegram
    \/ ChatAi

SpecChat == Init /\ [][NextChat]_vars

-----------------------------------------------------------------------------
(* The lookup specification: the routes that fetch one row by its id, with *)
(* ids that exist and an id that does not.                                 *)

DoGetGig == \E g \in GigIds : get_gig(g)
DoGetProfile == \E u \in UserIds : get_profile(u)

NextLookup ==
    \/ OneSignup
    \/ DoCreateGig
    \/ DoApply
    \/ DoGetGig
    \/ DoGetProfile
    \/ DoGetGigApplications
    \/ DoAccept
    \/ DoGetMatchedFreelancers

SpecLookup == Init /\ [][NextLookup]_vars

-----------------------------------------------------------------------------
(* The answers specification: one chat whose messages hold trigger phrases *)
(* and a cancellation keyword inside a longer text.                        *)

AnswerTexts ==
    {"post a gig", "register as freelancer", "find gigs", "please cancel"}
AnswerInputs ==
    [chat_id : ChatIds, message : AnswerTexts, user_name : {Some("Ann")}]

DoAnswer ==
    \E data \in AnswerInputs, completion \in WizardCompletions :
        /\ Turns(data.chat_id) < MaxTurns
        /\ telegram_chat(data, completion, 0)

NextAnswers == DoAnswer

SpecAnswers == Init /\ [][NextAnswers]_vars

-----------------------------------------------------------------------------
(* The race specification: requests to apply to a gig that overlap, each   *)
(* suspended between its pre-check and its insert.                         *)

Slots == 1..MaxInflight

FreeSlots == Slots \ {r.slot : r \in inflight}

RaceCheck ==
    /\ MarketRows < MaxMarketRows
    /\ \E slot \in FreeSlots, gig_id \in DOMAIN gigs,
          data \in ApplicationInputs, c \in Credentials :
           /\ \A other \in FreeSlots : slot <= other
           /\ apply_check(slot, gig_id, data, c)

RaceResume == \E r \in inflight, rpc_ok \in BOOLEAN : apply_resume(r, rpc_ok)

NextRace == OneSignup \/ DoCreateGig \/ RaceCheck \/ RaceResume

SpecRace == Init /\ [][NextRace]_vars

-----------------------------------------------------------------------------
(* The session specification: one chat whose messages overlap; a request   *)
(* that waits for the completion API leaves the event loop to the others.  *)

SessionTexts == {"post a gig", "7 - 9"}
SessionInputs ==
    [chat_id : ChatIds, message : SessionTexts, user_name : {Some("Ann")}]

SessionAsk ==
    \E slot \in FreeSlots, data \in SessionInputs :
        /\ Turns(data.chat_id) < MaxTurns
        /\ \A other \in FreeSlots : slot <= other
        /\ telegram_ask(slot, data)

SessionNow ==
    \E data \in SessionInputs, completion \in WizardCompletions :
        /\ Turns(data.chat_id) < MaxTurns
        /\ telegram_now(data, completion)

SessionAnswer ==
    \E r \in inflight, completion \in WizardCompletions :
        telegram_answer(r, completion)

NextSession == SessionAsk \/ SessionNow \/ SessionAnswer

\* the event loop runs every request that is ready
SpecSession == Init /\ [][NextSession]_vars /\ WF_vars(NextSession)

-----------------------------------------------------------------------------
(* The review race specification: create_review requests that overlap,     *)
(* each suspended between its store calls.                                 *)

\* every request of the race may overlap with every other
ReviewInsert ==
    /\ Cardinality(DOMAIN reviews) < MaxInflight
    /\ \E slot \in FreeSlots, data \in ReviewInputs, c \in Credentials :
           /\ \A other \in FreeSlots : slot <= other
           /\ review_insert(slot, data, c)

ReviewSelect == \E r \in inflight : review_select(r)

ReviewUpdate == \E r \in inflight : review_update(r)

NextReviewRace == OneSignup \/ ReviewInsert \/ ReviewSelect \/ ReviewUpdate

SpecReviewRace == Init /\ [][NextReviewRace]_vars

-----------------------------------------------------------------------------
(* The commit specification: one chat that runs the post-gig wizard, with  *)
(* answers that parse and answers that do not, and a store whose third     *)
(* call, the insert of the gig of a chat with no profile yet, may raise.   *)

CommitTexts == {"post a gig", "7 - 9"}
CommitInputs ==
    [chat_id : ChatIds, message : CommitTexts, user_name : {Some("Ann")}]
CommitFailAts == {0, 3}

DoCommit ==
    \E data \in CommitInputs, completion \in WizardCompletions,
       fail_at \in CommitFailAts :
        /\ Turns(data.chat_id) < MaxTurns
        /\ telegram_chat(data, completion, fail_at)

NextCommit == DoCommit

SpecCommit == Init /\ [][NextCommit]_vars

-----------------------------------------------------------------------------
(* Properties *)

\* the step handles a request of the route
Handled(route) == resp'.route = route /\ resp' # resp

SevenDays == 7 * 24
Accepts(t, time) == get_current_user(Some(t), time)

\* C1, in every state: each token a client got from create_access_token is
\* accepted, with its own subject and email, while the clock is strictly
\* before its issued-at plus 7 days, and answered 401 once the clock is past
\* that expiry.
C1_Window ==
    \A t \in tokens :
        /\ now < t.payload.iat + SevenDays =>
              /\ Accepts(t, now).ok
              /\ Accepts(t, now).user = UserObj(t.payload.sub, t.payload.email)
        /\ now > t.payload.iat + SevenDays =>
              /\ ~Accepts(t, now).ok
              /\ Accepts(t, now).status = 401

\* C1, in every step: a token that was accepted and no longer is has reached
\* its expiry; no request (a later login, signup or sign-in) invalidates it.
C1_OnlyExpiry ==
    \A t \in tokens :
        (Accepts(t, now).ok /\ ~Accepts(t, now').ok) =>
            (now < t.payload.exp /\ now' >= t.payload.exp)

\* C1: a token verifies before its 7-day expiry and fails after, and expiry
\* is the only thing that invalidates it.
C1_TokenLifetime == [](C1_Window) /\ [][C1_OnlyExpiry]_vars

\* C1 witness: /auth/me has just refused an expired token while the client
\* holds another token that is still accepted.
C1_Witness ==
    /\ resp.route = "get_me"
    /\ resp.status = 401
    /\ resp.detail = "Token expired"
    /\ \E t \in tokens : resp.req.credentials = Some(t)
                           /\ now > t.payload.iat + SevenDays
    /\ \E t \in tokens : now < t.payload.iat + SevenDays /\ Accepts(t, now).ok

\* C2: a signup with an email some profile has answers 400 and adds no
\* profile; a signup with a new email answers 200, adds exactly one profile,
\* with that email, and returns a token that authenticates as its id.
C2_SignupStep ==
    Handled("signup") =>
        LET email == resp'.req.email IN
        IF \E id \in DOMAIN profiles : profiles[id].email = email
        THEN resp'.status = 400 /\ profiles' = profiles
        ELSE /\ resp'.status = 200
             /\ \E id \in DOMAIN profiles' \ DOMAIN profiles :
                   /\ DOMAIN profiles' = DOMAIN profiles \cup {id}
                   /\ \A k \in DOMAIN profiles : profiles'[k] = profiles[k]
                   /\ profiles'[id].email = email
                   /\ Accepts(resp'.access_token, now').ok
                   /\ Accepts(resp'.access_token, now').user.id = id

C2_Signup == [][C2_SignupStep]_vars

\* C2 witness: a signup was refused for a taken email after two succeeded
C2_Witness ==
    /\ resp.route = "signup"
    /\ resp.status = 400
    /\ Cardinality({id \in DOMAIN profiles : profiles[id].password_hash # None}) = 2

\* C3: login with the email and password a profile signed up with answers 200
\* with a token that /auth/me accepts and resolves to that profile; login with
\* an unknown email or another password answers 401 and issues no token.
C3_LoginStep ==
    Handled("login") =>
        LET email == resp'.req.email
            password == resp'.req.password
            match == {id \in DOMAIN profiles :
                        /\ profiles[id].email = email
                        /\ profiles[id].password_hash = Some(hash_password(password))}
        IN  IF match # {}
            THEN /\ resp'.status = 200
                 /\ Accepts(resp'.access_token, now').ok
                 /\ LET me == get_me_body(Accepts(resp'.access_token, now').user)
                    IN  /\ me.status = 200
                        /\ me.user.id \in match
                        /\ me.user.email = email
            ELSE /\ resp'.status = 401
                 /\ "access_token" \notin DOMAIN resp'
                 /\ tokens' = tokens

C3_Login == [][C3_LoginStep]_vars

\* C3 witness: a login with the signed-up password succeeded
C3_Witness ==
    /\ resp.route = "login"
    /\ resp.status = 200
    /\ \E id \in DOMAIN profiles :
          /\ profiles[id].email = resp.req.email
          /\ resp.access_token.payload.sub = id

\* C3 witness of the refusal: a wrong password for a signed-up profile
C3_WitnessRefused ==
    /\ resp.route = "login"
    /\ resp.status = 401
    /\ \E id \in DOMAIN profiles :
          /\ profiles[id].email = resp.req.email
          /\ profiles[id].password_hash # None

\* no credentials, a token of bad shape or signature, or an expired token
InvalidCredentials(credentials, time) ==
    \/ credentials = None
    \/ ~credentials[1].wellformed
    \/ credentials[1].key # JWT_SECRET
    \/ time >= credentials[1].payload.exp

\* C9: /ai/chat never answers 401 or 403; with no credentials, an invalid
\* token or an expired token the identity is empty and the request is
\* processed as not logged in.
C9_OptionalStep ==
    Handled("ai_chat") =>
        /\ resp'.status \notin {401, 403}
        /\ InvalidCredentials(resp'.req.credentials, now) =>
              resp'.context_info = "User is NOT logged in"

C9_Optional == [][C9_OptionalStep]_vars

\* C9 witness: /ai/chat answered 200, as not logged in, a request that
\* carried a token of this server that had expired
C9_Witness ==
    /\ resp.route = "ai_chat"
    /\ resp.status = 200
    /\ resp.context_info = "User is NOT logged in"
    /\ \E t \in tokens : resp.req.credentials = Some(t)

\* the rows of applications of an applicant to a gig
RowsOf(apps, gig_id, applicant_id) ==
    {a \in DOMAIN apps : apps[a].gig_id = gig_id
                           /\ apps[a].applicant_id = applicant_id}

\* C4: an apply by an applicant who already has an application row for the
\* gig answers 400 "Already applied", inserts no row and leaves the gig's
\* counter alone; an apply that answers 200 leaves exactly one row.
C4_ApplyStep ==
    (Handled("apply_to_gig") /\ "user" \in DOMAIN resp') =>
        LET gig_id == resp'.req.gig_id
            me == resp'.user
        IN  /\ RowsOf(applications, gig_id, me) # {} =>
                  /\ resp'.status = 400
                  /\ resp'.detail = "Already applied"
                  /\ applications' = applications
                  /\ gigs' = gigs
            /\ resp'.status = 200 =>
                  Cardinality(RowsOf(applications', gig_id, me)) = 1

C4_ApplyTwice == [][C4_ApplyStep]_vars

\* C4 witness: a second apply was refused; the gig counts the one application
C4_Witness ==
    /\ resp.route = "apply_to_gig"
    /\ resp.status = 400
    /\ resp.detail = "Already applied"
    /\ Cardinality(RowsOf(applications, resp.req.gig_id, resp.user)) = 1
    /\ gigs[resp.req.gig_id].applications_count = 1

RECURSIVE Total(_, _)
Total(table, ids) ==
    IF ids = {} THEN 0
    ELSE LET id == CHOOSE x \in ids : TRUE IN
         table[id].rating + Total(table, ids \ {id})

\* C7: after a create_review that answers 200, the reviewed profile's
\* total_reviews is the number of review rows for that user and its rating is
\* their mean rounded to one decimal (at most half a tenth from the mean).
C7_ReviewStep ==
    (Handled("create_review") /\ resp'.status = 200) =>
        LET u == resp'.req.data.reviewed_user_id
            rows == {r \in DOMAIN reviews' : reviews'[r].reviewed_user_id = u}
            n == Cardinality(rows)
            d == 10 * Total(reviews', rows) - profiles'[u].rating * n
        IN  u \in DOMAIN profiles' =>
                /\ rows # {}
                /\ profiles'[u].total_reviews = n
                /\ 2 * d <= n
                /\ 2 * d >= 0 - n

C7_Rating == [][C7_ReviewStep]_vars

\* C7 witness: a profile with three reviews whose mean, 5/3, is no tenth
C7_Witness ==
    /\ resp.route = "create_review"
    /\ resp.status = 200
    /\ resp.req.data.reviewed_user_id \in DOMAIN profiles
    /\ profiles[resp.req.data.reviewed_user_id].total_reviews = 3
    /\ profiles[resp.req.data.reviewed_user_id].rating = 17

ProtectedRoutes ==
    {"get_me", "update_profile", "register_freelancer", "create_gig",
     "apply_to_gig", "get_gig_applications", "accept_application",
     "get_my_gigs", "get_my_applications", "get_matched_gigs",
     "get_matched_freelancers", "send_message", "get_conversation",
     "get_conversations", "create_review"}

\* C8: a route that depends on get_current_user answers 401 to a request
\* with no credentials, a token of bad shape or signature, or an expired
\* token, and then makes no call to the store and leaves it unchanged.
C8_GuardStep ==
    \A route \in ProtectedRoutes :
        (Handled(route) /\ InvalidCredentials(resp'.req.credentials, now)) =>
            /\ resp'.status = 401
            /\ resp'.calls = 0
            /\ store' = store

C8_Guard == [][C8_GuardStep]_vars

\* C8 witness: create_review refused a token of this server that had expired
C8_Witness ==
    /\ resp.route = "create_review"
    /\ resp.status = 401
    /\ resp.detail = "Token expired"
    /\ \E t \in tokens : resp.req.credentials = Some(t)

\* C10: for an existing gig or application, accept_application,
\* get_gig_applications and get_matched_freelancers answer 403 to an
\* authenticated user who did not create the gig, and leave the store
\* unchanged; an application becomes accepted only in an accept_application
\* of the creator of its gig.
C10_OwnerStep ==
    /\ \A route \in {"get_gig_applications", "get_matched_freelancers"} :
          (/\ Handled(route)
           /\ "user" \in DOMAIN resp'
           /\ resp'.req.gig_id \in DOMAIN gigs
           /\ gigs[resp'.req.gig_id].created_by # resp'.user) =>
              resp'.status = 403 /\ store' = store
    /\ (/\ Handled("accept_application")
        /\ "user" \in DOMAIN resp'
        /\ resp'.req.application_id \in DOMAIN applications
        /\ gigs[applications[resp'.req.application_id].gig_id].created_by
              # resp'.user) =>
          resp'.status = 403 /\ store' = store
    /\ \A a \in DOMAIN applications :
          (applications[a].status # "accepted"
              /\ applications'[a].status = "accepted") =>
              /\ Handled("accept_application")
              /\ resp'.status = 200
              /\ resp'.req.application_id = a
              /\ resp'.user = gigs[applications[a].gig_id].created_by

C10_Owner == [][C10_OwnerStep]_vars

\* C10 witness: accept_application refused a user who is not the creator of
\* the gig, after the creator accepted another application
C10_Witness ==
    /\ resp.route = "accept_application"
    /\ resp.status = 403
    /\ applications[resp.req.application_id].status = "pending"
    /\ \E a \in DOMAIN applications : applications[a].status = "accepted"

\* a step of telegram_chat for chat c
TelegramStep(c) ==
    /\ telegram_sessions' # telegram_sessions
    /\ resp'.route = "telegram_chat"
    /\ resp'.req.chat_id = c

\* the texts of the model that are a cancellation keyword in some letter case
CancelKeywordTexts ==
    {"cancel", "stop", "quit", "exit", "Cancel", "QUIT", "Stop"}

Idle(session) ==
    /\ session.wizard_mode = None
    /\ session.wizard_step = 0
    /\ session.wizard_data = <<>>

\* the history h ends with a whole post-gig run: the trigger heard while idle,
\* the opening question, six answers, each but the last acknowledged with the
\* next question, and the reply to the sixth
C5_RunIn(h) ==
    /\ Len(h) >= 14
    /\ h[Len(h) - 13] = [role |-> "user", content |-> "post a gig"]
    /\ h[Len(h) - 12] = [role |-> "assistant",
                         content |-> <<"Let's create your gig!", "title">>]
    /\ \A k \in 1..5 :
           h[Len(h) - 12 + 2 * k] =
               [role |-> "assistant",
                content |-> <<"Got it!", TELEGRAM_GIG_STEPS[k + 1]>>]
    /\ \A k \in 1..6 : h[Len(h) - 13 + 2 * k].role = "user"
    /\ h[Len(h)].role = "assistant"

\* answer k of the run the history ends with
C5_Answer(h, k) == h[Len(h) - 13 + 2 * k].content

\* the budget range and the number of days that the answers of the model
\* state: two numbers joined by "-", and a text whose first word is a number
C5_Budget == ("7 - 9" :> <<7, 9>>) @@ ("$5 - 9" :> <<5, 9>>) @@ ("5-9" :> <<5, 9>>)
C5_Days == ("7 - 9" :> 7) @@ ("7" :> 7) @@ ("7 days" :> 7)

\* the step added exactly one gig, made of the six answers
C5_OneGig(h, with_budget) ==
    \E id \in DOMAIN gigs' \ DOMAIN gigs :
        /\ DOMAIN gigs' = DOMAIN gigs \cup {id}
        /\ \A g \in DOMAIN gigs : gigs'[g] = gigs[g]
        /\ gigs'[id].title = C5_Answer(h, 1)
        /\ gigs'[id].description = C5_Answer(h, 2)
        /\ gigs'[id].category = C5_Answer(h, 3)
        /\ gigs'[id].location = C5_Answer(h, 4)
        /\ with_budget =>
            /\ gigs'[id].budget_min = C5_Budget[C5_Answer(h, 5)][1]
            /\ gigs'[id].budget_max = C5_Budget[C5_Answer(h, 5)][2]
            /\ gigs'[id].duration_start = now \div 24
            /\ gigs'[id].duration_end =
                   gigs'[id].duration_start + C5_Days[C5_Answer(h, 6)]

C5_CommitStep ==
    \A c \in ChatIds :
        (/\ TelegramStep(c)
         /\ C5_RunIn(telegram_sessions'[c].history)
         /\ C5_Answer(telegram_sessions'[c].history, 6) \notin CancelKeywordTexts
         /\ C5_Answer(telegram_sessions'[c].history, 5) \in DOMAIN C5_Budget
         /\ C5_Answer(telegram_sessions'[c].history, 6) \in DOMAIN C5_Days
         /\ ~resp'.failed)
        => /\ C5_OneGig(telegram_sessions'[c].history, TRUE)
           /\ Idle(telegram_sessions'[c])

\* a message to an idle session, or an answer before the sixth, inserts no gig
C5_QuietStep ==
    \A c \in ChatIds :
        (/\ TelegramStep(c)
         /\ \/ c \notin DOMAIN telegram_sessions
            \/ telegram_sessions[c].wizard_mode = None
            \/ /\ telegram_sessions[c].wizard_mode = Some("post_gig")
               /\ telegram_sessions[c].wizard_step < 5)
        => gigs' = gigs

C5_OriginalStep ==
    \A c \in ChatIds :
        (/\ TelegramStep(c)
         /\ C5_RunIn(telegram_sessions'[c].history)
         /\ C5_Answer(telegram_sessions'[c].history, 6) \notin CancelKeywordTexts
         /\ ~resp'.failed)
        => /\ C5_OneGig(telegram_sessions'[c].history, FALSE)
           /\ Idle(telegram_sessions'[c])

C6_CancelStep ==
    \A c \in ChatIds :
        (/\ TelegramStep(c)
         /\ c \in DOMAIN telegram_sessions
         /\ \/ /\ telegram_sessions[c].wizard_mode = Some("post_gig")
               /\ telegram_sessions[c].wizard_step \in 0..5
            \/ /\ telegram_sessions[c].wizard_mode = Some("register_freelancer")
               /\ telegram_sessions[c].wizard_step \in 0..3
         /\ resp'.req.message \in CancelKeywordTexts)
        => /\ Idle(telegram_sessions'[c])
           /\ store' = store
           /\ resp'.calls = 0

\* the message that starts a wizard, and every answer before the last one,
\* make no store call
C6_RunStep ==
    \A c \in ChatIds :
        (/\ TelegramStep(c)
         /\ \/ telegram_sessions'[c].wizard_mode # None
            \/ /\ c \in DOMAIN telegram_sessions
               /\ telegram_sessions[c].wizard_mode = Some("post_gig")
               /\ telegram_sessions[c].wizard_step < 5
            \/ /\ c \in DOMAIN telegram_sessions
               /\ telegram_sessions[c].wizard_mode = Some("register_freelancer")
               /\ telegram_sessions[c].wizard_step < 3)
        => /\ store' = store
           /\ resp'.calls = 0

\* C6: in either wizard and at every step index, a message that is cancel,
\* stop, quit or exit in any letter case leaves the session idle with step 0
\* and an empty answer map, and neither that message nor any earlier message
\* of the wizard run makes a store call or changes a table.
C6_Cancel == [][C6_CancelStep /\ C6_RunStep]_vars

C6_Witness ==
    /\ resp.route = "telegram_chat"
    /\ resp.req.message = "Cancel"
    /\ resp.response = <<"Cancelled! What else can I help with?">>
    /\ LET h == telegram_sessions["c1"].history IN
       /\ Len(h) >= 4
       /\ h[Len(h) - 2].content = <<"Got it!", "duration">>
    /\ Idle(telegram_sessions["c1"])
    /\ gigs = <<>>

\* C11: in every reachable state of the store there is at most one
\* application row for a gig and an applicant, also when two apply_to_gig
\* requests of the pair overlap between the pre-check and the insert.
C11_OneRowPerPair ==
    \A g \in DOMAIN gigs, u \in DOMAIN profiles :
        Cardinality(RowsOf(applications, g, u)) <= 1

\* a request of the pair (g, u) suspended after its pre-check
Suspended(reqs, g, u) ==
    {r \in reqs : r.route = "apply_to_gig" /\ r.req.gig_id = g /\ r.user.id = u}

C11_OverlapStep ==
    \A g \in DOMAIN gigs, u \in DOMAIN profiles :
        /\ RowsOf(applications, g, u) # {}
               => Suspended(inflight', g, u) \subseteq Suspended(inflight, g, u)
        /\ Cardinality(RowsOf(applications', g, u)) > 1
               => \/ RowsOf(applications', g, u) = RowsOf(applications, g, u)
                  \/ \E r \in Suspended(inflight, g, u) :
                         /\ inflight' = inflight \ {r}
                         /\ Cardinality(RowsOf(applications', g, u)) =
                                Cardinality(RowsOf(applications, g, u)) + 1

\* C11 (as amended): a request to apply whose pre-check runs when the pair
\* of gig and applicant has a row is refused and never reaches the insert, so
\* requests of a pair handled one after another leave at most one row; a
\* second row of a pair appears only when a request that passed its
\* pre-check before the first insert goes on to its own insert.
C11_Overlap == [][C11_OverlapStep]_vars

C11_Witness ==
    \E g \in DOMAIN gigs, u \in DOMAIN profiles :
        /\ Cardinality(RowsOf(applications, g, u)) = 2
        /\ resp.route = "apply_to_gig"
        /\ resp.status = 200

\* C12: between requests the history of every chat holds at most 30
\* entries, whatever telegram_chat messages were handled.
C12_HistoryBound ==
    \A c \in DOMAIN telegram_sessions :
        Len(telegram_sessions[c].history) <= HistoryLimit

\* C13: in every reachable state the wizard mode of every session is none,
\* post_gig or register_freelancer, and the step index is one of 0..5 in
\* post_gig and one of 0..3 in register_freelancer, so that the lookup of the
\* current step is within the list of steps.
C13_WizardRange ==
    \A c \in DOMAIN telegram_sessions :
        LET session == telegram_sessions[c] IN
        /\ session.wizard_mode \in
               {None, Some("post_gig"), Some("register_freelancer")}
        /\ session.wizard_mode = Some("post_gig")
               => /\ session.wizard_step \in 0..5
                  /\ session.wizard_step + 1 \in DOMAIN TELEGRAM_GIG_STEPS
        /\ session.wizard_mode = Some("register_freelancer")
               => /\ session.wizard_step \in 0..3
                  /\ session.wizard_step + 1 \in DOMAIN TELEGRAM_FREELANCER_STEPS

C13_Witness ==
    /\ "c1" \in DOMAIN telegram_sessions
    /\ telegram_sessions["c1"].wizard_mode = Some("post_gig")
    /\ telegram_sessions["c1"].wizard_step = 5
    /\ resp.response = <<"Got it!", TELEGRAM_GIG_STEPS[6]>>

\* the replies of handle_telegram_wizard to a commit without a result
FailureReplies ==
    {<<"Failed to create gig. Please try again!">>,
     <<"Failed to register. Please try again!">>}

\* the last answer of a wizard whose commit yields no result: no gig is
\* inserted, or a store call of the registration raises
C14_FailStep ==
    \A c \in ChatIds :
        (/\ TelegramStep(c)
         /\ c \in DOMAIN telegram_sessions
         /\ resp'.req.message \notin CancelKeywordTexts
         /\ \/ /\ telegram_sessions[c].wizard_mode = Some("post_gig")
               /\ telegram_sessions[c].wizard_step = 5
               /\ DOMAIN gigs' = DOMAIN gigs
            \/ /\ telegram_sessions[c].wizard_mode = Some("register_freelancer")
               /\ telegram_sessions[c].wizard_step = 3
               /\ resp'.failed)
        => /\ resp'.response =
                 (IF telegram_sessions[c].wizard_mode = Some("post_gig")
                  THEN <<"Failed to create gig. Please try again!">>
                  ELSE <<"Failed to register. Please try again!">>)
           /\ Idle(telegram_sessions'[c])

\* the message after a failed commit is handled as the message of an idle
\* session: it starts a wizard at step 0 or is answered by the search or the
\* completion API, and no commit is made
C14_NextStep ==
    \A c \in ChatIds :
        (/\ TelegramStep(c)
         /\ resp.route = "telegram_chat"
         /\ resp.req.chat_id = c
         /\ resp.response \in FailureReplies)
        => /\ gigs' = gigs
           /\ profiles' = profiles
           /\ telegram_sessions'[c].wizard_step = 0
           /\ telegram_sessions'[c].wizard_data = <<>>
           /\ resp'.response \notin FailureReplies
           /\ \/ /\ IntentOf[resp'.req.message] = "post_gig"
                 /\ telegram_sessions'[c].wizard_mode = Some("post_gig")
                 /\ resp'.calls = 0
              \/ /\ IntentOf[resp'.req.message] = "register_freelancer"
                 /\ telegram_sessions'[c].wizard_mode = Some("register_freelancer")
                 /\ resp'.calls = 0
              \/ /\ IntentOf[resp'.req.message] = "search"
                 /\ telegram_sessions'[c].wizard_mode = None
              \/ /\ IntentOf[resp'.req.message] = "chat"
                 /\ telegram_sessions'[c].wizard_mode = None
                 /\ resp'.calls = 0
                 /\ resp'.sent # <<>>

\* C14: when the commit at the end of a wizard yields no result, the reply is
\* the canned failure string and the session is idle with step 0 and no
\* answers; the commit is not made again: the next message of the chat is
\* handled as the message of an idle session.
C14_FailedCommit == [][C14_FailStep /\ C14_NextStep]_vars

C14_Witness ==
    /\ resp.route = "telegram_chat"
    /\ resp.response = <<"Let's create your gig!", "title">>
    /\ LET h == telegram_sessions["c1"].history IN
       /\ Len(h) >= 4
       /\ h[Len(h) - 2] =
              [role |-> "assistant",
               content |-> <<"Failed to register. Please try again!">>]
    /\ profiles = <<>>

\* the strings get_telegram_ai_response returns when the completion API fails
Apologies ==
    {<<"I'm having trouble right now. Try: 'post a gig', 'register as freelancer', or 'find gigs'">>,
     <<"Hi! I can help you post gigs, register as a freelancer, or find work. What would you like to do?">>}

\* the completion API was called by the step and failed: it answered with a
\* status other than 200, or the call timed out or raised
CompletionFailed ==
    /\ resp' # resp
    /\ resp'.route \in {"telegram_chat", "ai_chat"}
    /\ resp'.completion # None
    /\ \/ resp'.completion[1].kind = "exception"
       \/ resp'.completion[1].status_code # 200

C15_OriginalStep ==
    CompletionFailed
        => /\ resp'.status = 200
           /\ resp'.success = FALSE
           /\ resp'.response \in Apologies

\* C15 as stated: whenever the call to the completion API fails, the chat
\* handler of either channel returns a canned apology with success = false.
C15_Apology == [][C15_OriginalStep]_vars

C15_FailureStep ==
    CompletionFailed
        => IF resp'.route = "telegram_chat"
           THEN /\ resp'.status = 200
                /\ resp'.success = TRUE
                /\ resp'.response =
                      (IF resp'.completion[1].kind = "exception"
                       THEN <<"Hi! I can help you post gigs, register as a freelancer, or find work. What would you like to do?">>
                       ELSE <<"I'm having trouble right now. Try: 'post a gig', 'register as freelancer', or 'find gigs'">>)
                /\ LET h == telegram_sessions'[resp'.req.chat_id].history IN
                   h[Len(h)] = [role |-> "assistant", content |-> resp'.response]
                /\ telegram_sessions'[resp'.req.chat_id].wizard_mode = None
           ELSE /\ resp'.status = 500
                /\ resp'.detail =
                      (IF resp'.completion[1].kind = "exception"
                       THEN "exception" ELSE "AI service error")
                /\ store' = store

\* C15 (as amended): when the call to the completion API fails, telegram_chat
\* (idle, no keyword) returns a canned fallback string with success = true,
\* one string for a status other than 200 and another for a timeout or an
\* exception, and appends it to the history; ai_chat answers with status 500,
\* detail "AI service error" for a status other than 200 and the text of the
\* exception otherwise, and no response string.
C15_CompletionFailure == [][C15_FailureStep]_vars

C15_Witness ==
    /\ resp.route = "ai_chat"
    /\ resp.status = 500
    /\ resp.detail = "AI service error"
    /\ "c1" \in DOMAIN telegram_sessions
    /\ LET h == telegram_sessions["c1"].history IN
       /\ h[Len(h)].content \in Apologies
       /\ h[Len(h) - 1] = [role |-> "user", content |-> "hello"]

C16_AiStep ==
    (resp' # resp /\ resp'.route = "ai_chat")
        => /\ profiles' = profiles
           /\ gigs' = gigs
           /\ applications' = applications
           /\ messages' = messages
           /\ reviews' = reviews
           /\ resp'.calls = 0
           /\ resp'.status = 200
                 => /\ resp'.response = resp'.completion[1].content
                    /\ resp'.action = ParsedAction(resp'.response)
                    /\ resp'.response = "[POST_GIG] title: Logo"
                          => resp'.action =
                                Some([type |-> "POST_GIG",
                                      data |-> [title |-> "Logo"]])

\* C16: ai_chat makes no call to the store whatever the completion text
\* holds: profiles, gigs, applications, messages and reviews are unchanged by
\* the request, and an action marker in the text only gives the action of the
\* response, with the type of the marker and the data parsed after it.
C16_NoWrite == [][C16_AiStep]_vars

C16_Witness ==
    /\ resp.route = "ai_chat"
    /\ resp.status = 200
    /\ resp.context_info = "User is logged in"
    /\ resp.action = Some([type |-> "POST_GIG", data |-> [title |-> "Logo"]])
    /\ profiles # <<>>
    /\ gigs = <<>>

C17_IsolationStep ==
    \A a \in TwoChats :
        TelegramStep(a)
            => /\ DOMAIN telegram_sessions' = DOMAIN telegram_sessions \cup {a}
               /\ \A b \in DOMAIN telegram_sessions \ {a} :
                      telegram_sessions'[b] = telegram_sessions[b]

\* C17: a telegram_chat message of chat A leaves the session of every other
\* chat B as it was (history, wizard mode, step index, answers), and the only
\* session it can create is the one of A.
C17_Isolation == [][C17_IsolationStep]_vars

C17_Witness ==
    /\ resp.route = "telegram_chat"
    /\ resp.req.chat_id = "c2"
    /\ DOMAIN telegram_sessions = {"c1", "c2"}
    /\ telegram_sessions["c1"].wizard_mode = Some("post_gig")
    /\ telegram_sessions["c1"].wizard_step = 1
    /\ telegram_sessions["c2"].wizard_mode = None
    /\ Len(telegram_sessions["c2"].history) = 2

\* the last request looked up a row by an id that has no row
LookupMissed ==
    \/ /\ resp.route = "get_gig"
       /\ resp.req.gig_id \notin DOMAIN gigs
    \/ /\ resp.route = "get_profile"
       /\ resp.req.user_id \notin DOMAIN profiles
    \/ /\ resp.route \in {"get_gig_applications", "get_matched_freelancers"}
       /\ resp.status # 401
       /\ resp.req.gig_id \notin DOMAIN gigs
    \/ /\ resp.route = "accept_application"
       /\ resp.status # 401
       /\ resp.req.application_id \notin DOMAIN applications

\* C18: every handler that looks up one row by its id answers 404 when there
\* is no such row: get_gig and get_profile, and get_gig_applications,
\* accept_application and get_matched_freelancers for an authenticated caller.
C18_NotFound == LookupMissed => resp.status = 404

\* the replies of handle_telegram_wizard after a commit
CommitReplies(mode) ==
    IF mode = Some("post_gig")
    THEN {"Gig Posted Successfully!", "Failed to create gig. Please try again!"}
    ELSE {"You're now a freelancer!", "Failed to register. Please try again!"}

\* a message to a session in a wizard at step k that is no cancellation
\* keyword: the answer of step k is the message, the other answers stay, and
\* the step is k + 1 in the same wizard, or the wizard commits at its last step
C19_Answered(old, new, steps, ack, message) ==
    /\ resp'.completion = None
    /\ resp'.sent = <<>>
    /\ IF old.wizard_step + 1 < Len(steps)
       THEN /\ new.wizard_mode = old.wizard_mode
            /\ new.wizard_step = old.wizard_step + 1
            /\ DOMAIN new.wizard_data =
                   DOMAIN old.wizard_data \cup {steps[old.wizard_step + 1]}
            /\ new.wizard_data[steps[old.wizard_step + 1]] = message
            /\ \A key \in DOMAIN old.wizard_data \ {steps[old.wizard_step + 1]} :
                   new.wizard_data[key] = old.wizard_data[key]
            /\ resp'.response = <<ack, steps[old.wizard_step + 2]>>
            /\ store' = store
       ELSE /\ Idle(new)
            /\ resp'.response[1] \in CommitReplies(old.wizard_mode)

C19_AnswerStep ==
    \A c \in ChatIds :
        (/\ TelegramStep(c)
         /\ c \in DOMAIN telegram_sessions
         /\ telegram_sessions[c].wizard_mode # None
         /\ StripOf[resp'.req.message] \notin CancelKeywordTexts)
        => IF telegram_sessions[c].wizard_mode = Some("post_gig")
           THEN C19_Answered(telegram_sessions[c], telegram_sessions'[c],
                             TELEGRAM_GIG_STEPS, "Got it!",
                             StripOf[resp'.req.message])
           ELSE C19_Answered(telegram_sessions[c], telegram_sessions'[c],
                             TELEGRAM_FREELANCER_STEPS, "Great!",
                             StripOf[resp'.req.message])

\* C19: while a session is in a wizard at step k, every message that is not
\* as a whole a cancellation keyword, also one that holds a trigger phrase or
\* a keyword inside a longer text, is stored as the answer of step k and moves
\* the step on by one, or commits at the last step; it does not start the
\* wizard again, start the other wizard or reach the completion API.
C19_Answers == [][C19_AnswerStep]_vars

C19_Witness ==
    /\ "c1" \in DOMAIN telegram_sessions
    /\ telegram_sessions["c1"].wizard_mode = Some("post_gig")
    /\ telegram_sessions["c1"].wizard_step = 3
    /\ telegram_sessions["c1"].wizard_data =
           [title |-> "register as freelancer", description |-> "find gigs",
            category |-> "please cancel"]
    /\ resp.response = <<"Got it!", "location">>

\* the messages of the chats that hold a phrase of the post-gig list, and
\* those that hold a phrase of the freelancer list
C20_PostGigTexts == {"post a gig", "post a gig or register as freelancer"}
C20_FreelancerTexts ==
    {"register as freelancer", "post a gig or register as freelancer"}

C20_Started(session, mode, opening, steps) ==
    /\ session.wizard_mode = Some(mode)
    /\ session.wizard_step = 0
    /\ session.wizard_data = <<>>
    /\ resp'.response = <<opening, steps[1]>>
    /\ resp'.calls = 0
    /\ resp'.completion = None
    /\ store' = store

C20_StartStep ==
    \A c \in TwoChats :
        (/\ TelegramStep(c)
         /\ c \in DOMAIN telegram_sessions
                => telegram_sessions[c].wizard_mode = None)
        => /\ resp'.req.message \in C20_PostGigTexts
                 => C20_Started(telegram_sessions'[c], "post_gig",
                                "Let's create your gig!", TELEGRAM_GIG_STEPS)
           /\ resp'.req.message \in C20_FreelancerTexts \ C20_PostGigTexts
                 => C20_Started(telegram_sessions'[c], "register_freelancer",
                                "Let's set you up as a freelancer!",
                                TELEGRAM_FREELANCER_STEPS)

\* C20: an idle session that hears a message with a phrase of the post-gig
\* list is in post_gig at step 0 with no answers, one that hears a phrase of
\* the freelancer list is in register_freelancer at step 0 with no answers; a
\* message with phrases of both lists starts post_gig; the step makes no
\* store call.
C20_Start == [][C20_StartStep]_vars

C20_Witness ==
    /\ resp.route = "telegram_chat"
    /\ resp.req.chat_id = "c1"
    /\ resp.req.message = "post a gig or register as freelancer"
    /\ DOMAIN telegram_sessions = {"c1", "c2"}
    /\ telegram_sessions["c1"].wizard_mode = Some("post_gig")
    /\ telegram_sessions["c1"].wizard_step = 0
    /\ Len(telegram_sessions["c1"].history) = 4
    /\ telegram_sessions["c2"].wizard_mode = Some("register_freelancer")
    /\ telegram_sessions["c2"].wizard_step = 0

\* the answer to the last step of a wizard: the commit function is awaited
\* once, at most one gig is inserted or one profile row written, and the
\* session is idle whatever the commit did
C21_LastStep ==
    \A c \in ChatIds :
        (/\ TelegramStep(c)
         /\ c \in DOMAIN telegram_sessions
         /\ resp'.req.message \notin CancelKeywordTexts
         /\ \/ /\ telegram_sessions[c].wizard_mode = Some("post_gig")
               /\ telegram_sessions[c].wizard_step = 5
            \/ /\ telegram_sessions[c].wizard_mode = Some("register_freelancer")
               /\ telegram_sessions[c].wizard_step = 3)
        => /\ resp'.commits = 1
           /\ Idle(telegram_sessions'[c])
           /\ resp'.response[1] \in CommitReplies(telegram_sessions[c].wizard_mode)
           /\ IF telegram_sessions[c].wizard_mode = Some("post_gig")
              THEN /\ Cardinality(DOMAIN gigs' \ DOMAIN gigs) <= 1
                   /\ \A id \in DOMAIN gigs : gigs'[id] = gigs[id]
                   /\ resp'.response[1] = "Gig Posted Successfully!"
                         <=> Cardinality(DOMAIN gigs' \ DOMAIN gigs) = 1
              ELSE /\ gigs' = gigs
                   /\ \A id \in DOMAIN profiles' \ {<<"telegram", c>>} :
                         id \in DOMAIN profiles /\ profiles'[id] = profiles[id]
                   /\ resp'.response[1] = "You're now a freelancer!"
                         <=> /\ <<"telegram", c>> \in DOMAIN profiles'
                             /\ profiles'[<<"telegram", c>>].is_freelancer
                             /\ ~resp'.failed

\* every other message of the chat: no commit function is awaited and no
\* table changes
C21_OtherStep ==
    \A c \in ChatIds :
        (/\ TelegramStep(c)
         /\ \/ c \notin DOMAIN telegram_sessions
            \/ telegram_sessions[c].wizard_mode = None
            \/ resp'.req.message \in CancelKeywordTexts
            \/ /\ telegram_sessions[c].wizard_mode = Some("post_gig")
               /\ telegram_sessions[c].wizard_step < 5
            \/ /\ telegram_sessions[c].wizard_mode = Some("register_freelancer")
               /\ telegram_sessions[c].wizard_step < 3)
        => /\ resp'.commits = 0
           /\ store' = store

\* C21: the answer to the last step of a wizard makes one commit attempt for
\* the run, with at most one gig inserted for post_gig and one profile row
\* updated or inserted for register_freelancer, and leaves the session idle
\* whether the commit gave a result or not; no step before it, and no
\* message after it, makes a commit.
C21_OneCommit == [][C21_LastStep /\ C21_OtherStep]_vars

C21_Witness ==
    /\ resp.route = "telegram_chat"
    /\ resp.commits = 1
    /\ resp.response[1] = "Gig Posted Successfully!"
    /\ Cardinality(DOMAIN gigs) = 1
    /\ Idle(telegram_sessions["c1"])

\* the requests of chat c that wait for the completion API
C22_Waiting(reqs, c) ==
    {r \in reqs : r.route = "telegram_chat" /\ r.req.chat_id = c}

\* the slots of the requests that are suspended
C22_Slots(reqs) == {r.slot : r \in reqs}

\* a request is suspended only after it found the session idle
C22_NoneInWizard ==
    \A c \in ChatIds :
        \A r \in C22_Waiting(inflight', c) : r.heard.wizard_mode = None

\* a message a wizard gets is handled in one step, in which it fills the slot
\* of the step the session is at, a slot with no answer yet, and the step
\* index goes up by one, or, at the last step, the one commit is made
C22_AnswerStep ==
    \A c \in ChatIds :
        (/\ TelegramStep(c)
         /\ C22_Slots(inflight') \subseteq C22_Slots(inflight)
         /\ c \in DOMAIN telegram_sessions
         /\ telegram_sessions[c].wizard_mode = Some("post_gig")
         /\ Len(telegram_sessions'[c].history) > 1
         /\ telegram_sessions'[c].history[
                Len(telegram_sessions'[c].history) - 1].role = "user")
        => /\ C22_Slots(inflight') = C22_Slots(inflight)
           /\ TELEGRAM_GIG_STEPS[telegram_sessions[c].wizard_step + 1]
                  \notin DOMAIN telegram_sessions[c].wizard_data
           /\ IF telegram_sessions[c].wizard_step < 5
              THEN /\ telegram_sessions'[c].wizard_step =
                          telegram_sessions[c].wizard_step + 1
                   /\ DOMAIN telegram_sessions'[c].wizard_data =
                          {TELEGRAM_GIG_STEPS[i] :
                              i \in 1..telegram_sessions'[c].wizard_step}
                   /\ telegram_sessions'[c].wizard_data[
                          TELEGRAM_GIG_STEPS[telegram_sessions[c].wizard_step + 1]]
                          = resp'.req.message
                   /\ \A key \in DOMAIN telegram_sessions[c].wizard_data :
                          telegram_sessions'[c].wizard_data[key] =
                              telegram_sessions[c].wizard_data[key]
                   /\ resp'.commits = 0
              ELSE /\ resp'.commits = 1
                   /\ Idle(telegram_sessions'[c])
                   /\ Cardinality(DOMAIN gigs') <= Cardinality(DOMAIN gigs) + 1

\* a request that goes on after the completion API answered appends its
\* reply to the history and leaves the wizard fields and the store alone
C22_ResumeStep ==
    \A c \in ChatIds :
        (/\ TelegramStep(c)
         /\ C22_Slots(inflight') # C22_Slots(inflight)
         /\ C22_Slots(inflight') \subseteq C22_Slots(inflight))
        => /\ telegram_sessions'[c] =
                  [telegram_sessions[c] EXCEPT
                      !.history = Append(@, [role |-> "assistant",
                                             content |-> resp'.response])]
           /\ resp'.sent # <<>>
           /\ resp'.commits = 0
           /\ store' = store

\* a request that is suspended has put its message in the history and
\* nothing else
C22_AskStep ==
    \A c \in ChatIds :
        (/\ C22_Slots(C22_Waiting(inflight', c)) #
                C22_Slots(C22_Waiting(inflight, c))
         /\ C22_Slots(inflight) \subseteq C22_Slots(inflight'))
        => /\ Idle(telegram_sessions'[c])
           /\ resp' = resp
           /\ store' = store

C22_SameStep(c) ==
    \E r1, r2 \in C22_Waiting(inflight, c) :
        /\ r1.slot # r2.slot
        /\ r1.heard.wizard_mode # None
        /\ r2.heard.wizard_mode = r1.heard.wizard_mode
        /\ r2.heard.wizard_step = r1.heard.wizard_step

C23_RpcFailStep ==
    (/\ Handled("apply_to_gig")
     /\ "user" \in DOMAIN resp'
     /\ resp'.status = 400
     /\ resp'.calls = 3)
    => LET gig_id == resp'.req.gig_id
           me == resp'.user
           new == DOMAIN applications' \ DOMAIN applications
       IN  /\ RowsOf(applications, gig_id, me) = {}
           /\ Cardinality(new) = 1
           /\ \A a \in new :
                  /\ applications'[a].gig_id = gig_id
                  /\ applications'[a].applicant_id = me
                  /\ applications'[a].status = "pending"
           /\ \A a \in DOMAIN applications :
                  applications'[a] = applications[a]
           /\ gigs' = gigs
           /\ profiles' = profiles

\* no step takes an application row back, and no step raises a gig's counter
\* by more than the rows it adds for the gig: a counter that missed a row
\* keeps missing it
C23_NoRepairStep ==
    /\ DOMAIN applications \subseteq DOMAIN applications'
    /\ \A g \in DOMAIN gigs :
           /\ g \in DOMAIN gigs'
           /\ gigs'[g].applications_count - gigs[g].applications_count
                  <= Cardinality({a \in DOMAIN applications' :
                                     applications'[a].gig_id = g})
                     - Cardinality({a \in DOMAIN applications :
                                       applications[a].gig_id = g})

\* an apply by the applicant of a row the counter missed is refused as
\* already applied and changes nothing
C23_AgainStep ==
    (/\ Handled("apply_to_gig")
     /\ "user" \in DOMAIN resp'
     /\ resp'.req.gig_id \in DOMAIN gigs
     /\ RowsOf(applications, resp'.req.gig_id, resp'.user) # {}
     /\ gigs[resp'.req.gig_id].applications_count
            < Cardinality({a \in DOMAIN applications :
                              applications[a].gig_id = resp'.req.gig_id}))
    => /\ resp'.status = 400
       /\ resp'.detail = "Already applied"
       /\ resp'.calls = 1
       /\ store' = store

\* C23: when the counter rpc of apply_to_gig fails after the insert, the
\* request answers 400 while the application row stays in the table and the
\* gig's applications_count is not raised; no later step takes the row back or
\* makes the counter up, and a later apply by the same applicant to the gig is
\* refused as already applied.
C23_RpcFailure ==
    [][C23_RpcFailStep /\ C23_NoRepairStep /\ C23_AgainStep]_vars

\* the applicant of a row the counter missed applied again and was refused
C23_Witness ==
    /\ resp.route = "apply_to_gig"
    /\ resp.status = 400
    /\ resp.detail = "Already applied"
    /\ Cardinality(RowsOf(applications, resp.req.gig_id, resp.user)) = 1
    /\ gigs[resp.req.gig_id].applications_count = 0

\* the history of chat c once the message of the step is appended to it and
\* it is cut to its last HistoryLimit entries
C24_Heard(c, message) ==
    LET h == (IF c \in DOMAIN telegram_sessions
              THEN telegram_sessions[c].history ELSE <<>>)
             \o <<[role |-> "user", content |-> message]>>
    IN  IF Len(h) <= HistoryLimit THEN h
        ELSE SubSeq(h, Len(h) - HistoryLimit + 1, Len(h))

\* the step answers a message without keyword to an idle session of chat c
C24_Asked(c) ==
    /\ TelegramStep(c)
    /\ resp'.completion # None
    /\ resp'.completion[1].status_code = 200

\* the completion text is the reply and the last entry of the history
C24_Appended(c, heard) ==
    /\ resp'.response = <<resp'.completion[1].content>>
    /\ Len(telegram_sessions'[c].history) = Len(heard) + 1
    /\ \A i \in 1..Len(heard) : telegram_sessions'[c].history[i] = heard[i]
    /\ telegram_sessions'[c].history[Len(heard) + 1] =
           [role |-> "assistant", content |-> resp'.response]

C24_WholeStep ==
    \A c \in ChatIds :
        C24_Asked(c) =>
            LET heard == C24_Heard(c, resp'.req.message)
            IN  /\ Len(resp'.sent) = 1 + Len(heard)
                /\ resp'.sent[1].role = "system"
                /\ \A i \in 1..Len(heard) : resp'.sent[1 + i] = heard[i]
                /\ C24_Appended(c, heard)

\* C24: on a message without keyword to an idle session, the messages sent to
\* the completion API are the system prompt followed by the whole history the
\* session keeps (up to HistoryLimit entries, the last of them the message),
\* and the completion text is appended to the history as the assistant's
\* turn.
C24_WholeHistory == [][C24_WholeStep]_vars

C24_WindowStep ==
    \A c \in ChatIds :
        C24_Asked(c) =>
            LET heard == C24_Heard(c, resp'.req.message)
                n == IF Len(heard) <= AiWindow THEN Len(heard) ELSE AiWindow
            IN  /\ Len(resp'.sent) = 1 + n
                /\ resp'.sent[1].role = "system"
                /\ \A i \in 1..n :
                       resp'.sent[1 + i] = heard[Len(heard) - n + i]
                /\ resp'.sent[1 + n] =
                       [role |-> "user", content |-> resp'.req.message]
                /\ C24_Appended(c, heard)

\* C24 as amended: on a message without keyword to an idle session, the
\* messages sent to the completion API are the system prompt followed by the
\* last AiWindow entries of the history the session keeps (the whole of it
\* while it holds no more), the last of them the message, and the completion
\* text is appended to the history as the assistant's turn.
C24_LastTen == [][C24_WindowStep]_vars

\* the completion API was sent the last AiWindow entries of a history that had
\* been cut to HistoryLimit entries
C24_Witness ==
    /\ resp.route = "telegram_chat"
    /\ resp.completion # None
    /\ Len(resp.sent) = 1 + AiWindow
    /\ Len(telegram_sessions["c1"].history) = HistoryLimit + 1
    /\ telegram_sessions["c1"].history[HistoryLimit + 1] =
           [role |-> "assistant", content |-> resp.response]

\* the step answers with a token for a profile that had a password hash before
\* the step
C25_IssuedFor(id) ==
    /\ resp' # resp
    /\ resp'.status = 200
    /\ "access_token" \in DOMAIN resp'
    /\ resp'.access_token.payload.sub = id
    /\ profiles[id].password_hash # None

C25_TokenStep ==
    \A id \in DOMAIN profiles :
        C25_IssuedFor(id) =>
            /\ resp'.route = "login"
            /\ resp'.req.email = profiles[id].email
            /\ profiles[id].password_hash =
                   Some(hash_password(resp'.req.password))

\* C25: a token whose subject is an existing profile with a password hash is
\* issued only by a login that presents the password of the profile; in
\* particular google_auth issues none for such a profile on its email alone.
C25_PasswordOnly == [][C25_TokenStep]_vars

\* the row of a response holds a password hash
C26_Exposed(row) ==
    /\ "password_hash" \in DOMAIN row
    /\ row.password_hash # None

\* C26: no response holds the password hash of a profile: not the user of
\* signup, login, google_auth and get_me, not the profile of get_profile,
\* update_profile and register_freelancer, and not a freelancer of
\* get_matched_freelancers.
C26_NoHash ==
    resp.status = 200 =>
        /\ resp.route \in {"signup", "login", "google_auth"}
               => ~C26_Exposed(resp.user)
        /\ resp.route = "get_me" => ~C26_Exposed(resp.body.user)
        /\ resp.route = "get_profile" => ~C26_Exposed(resp.profile)
        /\ resp.route \in {"update_profile", "register_freelancer"}
               => \A i \in DOMAIN resp.profile : ~C26_Exposed(resp.profile[i])
        /\ resp.route = "get_matched_freelancers"
               => \A f \in resp.freelancers : ~C26_Exposed(f)

\* the review rows of user u in a table
C27_Rows(table, u) == {x \in DOMAIN table : table[x].reviewed_user_id = u}

\* C27: whenever no create_review request is under way, the total_reviews of
\* every reviewed profile is the number of its review rows and its rating is
\* their mean rounded to one decimal, however the requests that made the rows
\* overlapped.
C27_Aggregate ==
    inflight = {} =>
        \A u \in DOMAIN profiles :
            C27_Rows(reviews, u) # {} =>
                /\ profiles[u].total_reviews = Cardinality(C27_Rows(reviews, u))
                /\ profiles[u].rating =
                       RoundTenths(SumRatings(reviews, C27_Rows(reviews, u)),
                                   Cardinality(C27_Rows(reviews, u)))

\* the select of a request sees the rows the table holds at that moment, its
\* own among them
C27_SelectStep ==
    \A r \in inflight' :
        (r.route = "create_review" /\ r.pc = "update"
         /\ \E q \in inflight : q.slot = r.slot /\ q.pc = "select")
        => LET rows == C27_Rows(reviews, r.req.data.reviewed_user_id)
           IN  /\ r.review.id \in rows
               /\ r.count = Cardinality(rows)
               /\ r.total = SumRatings(reviews, rows)
               /\ store' = store

\* the update of a request writes the number and the mean of the rows its
\* select saw, whatever was inserted since
C27_UpdateStep ==
    \A r \in inflight :
        (/\ r.route = "create_review"
         /\ r.pc = "update"
         /\ r.slot \notin {q.slot : q \in inflight'}
         /\ r.req.data.reviewed_user_id \in DOMAIN profiles)
        => LET u == r.req.data.reviewed_user_id
           IN  /\ profiles'[u].total_reviews = r.count
               /\ profiles'[u].rating = RoundTenths(r.total, r.count)
               /\ r.count <= Cardinality(C27_Rows(reviews, u))
               /\ reviews' = reviews
               /\ resp'.status = 200

\* a request that selects and updates with no insert for the user in between
\* leaves the aggregate of every row
C27_FreshStep ==
    \A r \in inflight :
        (/\ r.route = "create_review"
         /\ r.pc = "update"
         /\ r.slot \notin {q.slot : q \in inflight'}
         /\ r.req.data.reviewed_user_id \in DOMAIN profiles
         /\ r.count = Cardinality(C27_Rows(reviews, r.req.data.reviewed_user_id)))
        => LET u == r.req.data.reviewed_user_id
           IN  /\ profiles'[u].total_reviews = Cardinality(C27_Rows(reviews', u))
               /\ profiles'[u].rating =
                      RoundTenths(SumRatings(reviews', C27_Rows(reviews', u)),
                                  Cardinality(C27_Rows(reviews', u)))

\* C27 as amended: a create_review request writes to the profile the number
\* and the rounded mean of the review rows its own select saw; the aggregate
\* is that of every row when no row for the user was inserted between the
\* select and the update, and a request whose update runs after a later
\* request's leaves the aggregate of the fewer rows it saw.
C27_SeenRows == [][C27_SelectStep /\ C27_UpdateStep /\ C27_FreshStep]_vars

\* all requests have completed and the profile counts fewer reviews than the
\* table holds for it
C27_Witness ==
    /\ inflight = {}
    /\ resp.route = "create_review"
    /\ resp.status = 200
    /\ \E u \in DOMAIN profiles :
           /\ Cardinality(C27_Rows(reviews, u)) = 2
           /\ profiles[u].total_reviews = 1

\* the step is the last answer of a post-gig run of chat c, and its commit
\* gave no result
C28_Failed(c) ==
    /\ TelegramStep(c)
    /\ c \in DOMAIN telegram_sessions
    /\ telegram_sessions[c].wizard_mode = Some("post_gig")
    /\ resp'.commits = 1
    /\ resp'.response = <<"Failed to create gig. Please try again!">>

C28_UntouchedStep == \A c \in ChatIds : C28_Failed(c) => store' = store

\* C28: a post-gig run whose commit gives no result leaves the store as it
\* was: it adds no gig row and no profile row of the chat's user.
C28_StoreUntouched == [][C28_UntouchedStep]_vars

C28_ProfileStep ==
    \A c \in ChatIds :
        C28_Failed(c) =>
            /\ gigs' = gigs
            /\ applications' = applications
            /\ reviews' = reviews
            /\ messages' = messages
            /\ \A p \in DOMAIN profiles :
                   p \in DOMAIN profiles' /\ profiles'[p] = profiles[p]
            /\ DOMAIN profiles' \subseteq DOMAIN profiles \cup {<<"telegram", c>>}
            /\ profiles' # profiles =>
                   /\ resp'.failed
                   /\ resp'.calls = 3
                   /\ profiles'[<<"telegram", c>>].bio = "Telegram User"
            /\ ~resp'.failed => profiles' = profiles

\* C28 as amended: a post-gig run whose commit gives no result adds no gig
\* row and changes no row there is; it adds the profile row of the chat's
\* user when the chat had none and the call that failed is the insert of the
\* gig, which comes after the insert of the profile, and adds nothing when the
\* answers do not parse.
C28_NoGig == [][C28_ProfileStep]_vars

\* the insert of the gig failed after the profile of the chat was inserted
C28_Witness ==
    /\ resp.route = "telegram_chat"
    /\ resp.commits = 1
    /\ resp.response = <<"Failed to create gig. Please try again!">>
    /\ resp.failed
    /\ DOMAIN profiles = {<<"telegram", "c1">>}
    /\ gigs = <<>>

\* every row a step adds to applications is pending, every row stays in the
\* table, and a status changes only from pending to accepted
C29_StatusStep ==
    /\ \A a \in DOMAIN applications' \ DOMAIN applications :
           applications'[a].status = "pending"
    /\ \A a \in DOMAIN applications :
           /\ a \in DOMAIN applications'
           /\ \/ applications'[a].status = applications[a].status
              \/ /\ applications[a].status = "pending"
                 /\ applications'[a].status = "accepted"
           /\ applications[a].status = "accepted"
                  => applications'[a].status = "accepted"

\* to accept an accepted application again answers 200 and changes nothing
C29_AgainStep ==
    (/\ Handled("accept_application")
     /\ resp'.status = 200
     /\ applications[resp'.req.application_id].status = "accepted")
    => store' = store

\* C29: every application is created with status pending, its status only
\* changes from pending to accepted, and an accepted application stays
\* accepted under every later apply_to_gig and accept_application request; to
\* accept it again changes nothing.
C29_Status == [][C29_StatusStep /\ C29_AgainStep]_vars

\* the applicant of an accepted application applied to the gig again, and the
\* application is still accepted
C29_Witness ==
    /\ resp.route = "apply_to_gig"
    /\ resp.status = 400
    /\ resp.detail = "Already applied"
    /\ \E a \in DOMAIN applications :
           /\ applications[a].gig_id = resp.req.gig_id
           /\ applications[a].applicant_id = resp.user
           /\ applications[a].status = "accepted"

\* the steps of a wizard mode and the reply that opens it
C30_Steps(mode) ==
    IF mode = Some("post_gig") THEN TELEGRAM_GIG_STEPS
    ELSE TELEGRAM_FREELANCER_STEPS

C30_Opening(mode) ==
    IF mode = Some("post_gig")
    THEN <<"Let's create your gig!", TELEGRAM_GIG_STEPS[1]>>
    ELSE <<"Let's set you up as a freelancer!", TELEGRAM_FREELANCER_STEPS[1]>>

\* a session in a wizard at step k got k messages since the message that
\* started the wizard, fewer than the wizard has steps: the history ends with
\* the starting message, the opening reply and k messages with their replies
C30_Since(session) ==
    LET h == session.history
        k == session.wizard_step
    IN  /\ k < Len(C30_Steps(session.wizard_mode))
        /\ Len(h) >= 2 * k + 2
        /\ h[Len(h) - 2 * k - 1].role = "user"
        /\ h[Len(h) - 2 * k].role = "assistant"
        /\ h[Len(h) - 2 * k].content = C30_Opening(session.wizard_mode)
        /\ \A i \in 1..k :
               /\ h[Len(h) - 2 * k + 2 * i - 1].role = "user"
               /\ h[Len(h) - 2 * k + 2 * i].role = "assistant"

\* every message to a session in a wizard ends the wizard or takes it one
\* step on, and the message at the last step ends it
C30_MessageStep ==
    \A c \in ChatIds :
        (/\ TelegramStep(c)
         /\ c \in DOMAIN telegram_sessions
         /\ telegram_sessions[c].wizard_mode # None)
        => /\ \/ Idle(telegram_sessions'[c])
              \/ /\ telegram_sessions'[c].wizard_mode =
                        telegram_sessions[c].wizard_mode
                 /\ telegram_sessions'[c].wizard_step =
                        telegram_sessions[c].wizard_step + 1
           /\ telegram_sessions[c].wizard_step + 1 =
                  Len(C30_Steps(telegram_sessions[c].wizard_mode))
                  => Idle(telegram_sessions'[c])

C30_CountStep ==
    \A c \in DOMAIN telegram_sessions' :
        telegram_sessions'[c].wizard_mode # None
            => C30_Since(telegram_sessions'[c])

\* C30: every wizard that starts ends. A session in a wizard is at the step
\* that counts the messages it got since the one that started the wizard,
\* every message takes it one step on or makes it idle, and the message at
\* the last step makes it idle whatever it holds and whatever the commit
\* gives: the session is idle again after at most 6 further messages in
\* post_gig and at most 4 in register_freelancer.
C30_Ends == [][C30_MessageStep /\ C30_CountStep]_vars

\* a register_freelancer wizard ended with its fourth further message
C30_Witness ==
    /\ "c1" \in DOMAIN telegram_sessions
    /\ Idle(telegram_sessions["c1"])
    /\ resp.route = "telegram_chat"
    /\ resp.commits = 1
    /\ Len(telegram_sessions["c1"].history) = 10
    /\ telegram_sessions["c1"].history[1].content = "register as freelancer"
    /\ telegram_sessions["c1"].history[2].content =
           C30_Opening(Some("register_freelancer"))

====
